---- MODULE Spec2Model ----
(***************************************************************************)
(* A model of the familytree repository layer: the generic                 *)
(* BaseRepository over an ArangoDB collection, the Person and              *)
(* Relationship entities, the two services on top of it and the            *)
(* connection bootstrap (NewClient).                                       *)
(*                                                                         *)
(* Conventions.                                                            *)
(*  - A Go string is a sequence of tokens; a token is either the blank     *)
(*    SP or a run of non-blank characters ("@" and "." are tokens of       *)
(*    their own so that isValidEmail can be computed).  "" is <<>>.        *)
(*  - A time.Time is a natural number of clock ticks; 0 is the zero time   *)
(*    (IsZero).  JSON carries a time as its RFC 3339 text, which keeps the *)
(*    instant, so a stored time is the same number.                        *)
(*  - time.Now() is read from the variable now, and every read advances    *)
(*    it: two readings of the wall clock are never equal.                  *)
(*  - A Go error is the chain of its messages, the outermost first; the    *)
(*    last one is the store's answer when the error wraps one.             *)
(***************************************************************************)
EXTENDS Integers, Sequences, FiniteSets, TLC

\* Last clock reading the model takes: no operation reads the clock after it.
MaxTime == 3

\* Number of process instances that run NewClient at the same time.
NumInstances == 2

--------------------------------------------------------------------------
\* Strings

SP == " "

EmptyStr == <<>>

\* strings.TrimSpace: drops the leading and the trailing blanks
RECURSIVE TrimLeft(_)
TrimLeft(s) ==
    IF s # <<>> /\ Head(s) = SP THEN TrimLeft(Tail(s)) ELSE s

RECURSIVE TrimRight(_)
TrimRight(s) ==
    IF s # <<>> /\ s[Len(s)] = SP THEN TrimRight(SubSeq(s, 1, Len(s) - 1)) ELSE s

TrimSpace(s) == TrimRight(TrimLeft(s))

\* strings.Contains(s, c) for a one-character c
Contains(s, c) == \E i \in 1..Len(s) : s[i] = c

\* strings.Split(s, sep) for a one-character sep: the pieces between the
\* separators, Count(sep) + 1 of them
RECURSIVE Split(_, _)
Split(s, sep) ==
    IF ~Contains(s, sep) THEN <<s>>
    ELSE LET i == CHOOSE j \in 1..Len(s) :
                      s[j] = sep /\ \A k \in 1..(j - 1) : s[k] # sep
         IN <<SubSeq(s, 1, i - 1)>> \o Split(SubSeq(s, i + 1, Len(s)), sep)

--------------------------------------------------------------------------
\* Entities (pkg/interfaces)

PersonsColl == "persons"
RelationshipsColl == "relationships"
Kinds == {PersonsColl, RelationshipsColl}

RelationTypeParent == <<"parent">>
RelationTypeChild == <<"child">>
RelationTypeSpouse == <<"spouse">>
RelationTypeSibling == <<"sibling">>

MetaFields == {"Key", "ID", "Rev"}
TimeFields == {"CreatedAt", "UpdatedAt"}
PersonDataFields ==
    {"FirstName", "LastName", "BirthDate", "DeathDate", "Gender", "Email", "Phone"}
RelationshipDataFields ==
    {"From", "To", "RelationType", "StartDate", "EndDate", "Notes"}

DataFields(kind) ==
    IF kind = PersonsColl THEN PersonDataFields ELSE RelationshipDataFields

Fields(kind) == MetaFields \cup DataFields(kind) \cup TimeFields

\* the fields of type time.Time; every other field is a string
DateFields == {"BirthDate", "DeathDate", "StartDate", "EndDate"} \cup TimeFields

\* the string fields tagged omitempty (omitempty has no effect on a
\* time.Time, which is a struct)
OmitEmpty(kind) ==
    MetaFields \cup
        (IF kind = PersonsColl THEN {"Gender", "Email", "Phone"} ELSE {"Notes"})

\* the zero value of a field
Zero(f) == IF f \in DateFields THEN 0 ELSE EmptyStr

\* var entity T: the zero Person / Relationship
ZeroEntity(kind) == [f \in Fields(kind) |-> Zero(f)]

\* a SetMetadata that keeps the revision the entity had
SetMetadata_KeepRev(p, key, id, rev) ==
    [p EXCEPT !.Key = key, !.ID = id]

\* Person.SetMetadata
Person_SetMetadata(p, key, id, rev) ==
    [p EXCEPT !.Key = key, !.ID = id, !.Rev = rev]

\* Relationship.SetMetadata
Relationship_SetMetadata(r, key, id, rev) ==
    [r EXCEPT !.Key = key, !.ID = id, !.Rev = rev]

\* a SetTimestamps that overwrites createdAt whatever it holds
SetTimestamps_Overwrite(p, createdAt, updatedAt) ==
    [p EXCEPT !.CreatedAt = createdAt, !.UpdatedAt = updatedAt]

\* Person.SetTimestamps
Person_SetTimestamps(p, createdAt, updatedAt) ==
    [p EXCEPT !.CreatedAt = IF p.CreatedAt = 0 THEN createdAt ELSE @,
              !.UpdatedAt = updatedAt]

\* Relationship.SetTimestamps
Relationship_SetTimestamps(r, createdAt, updatedAt) ==
    [r EXCEPT !.CreatedAt = IF r.CreatedAt = 0 THEN createdAt ELSE @,
              !.UpdatedAt = updatedAt]

\* Person.GetUpdatedAt / Relationship.GetUpdatedAt
GetUpdatedAt(e) == e.UpdatedAt

\* the Entity interface: the call goes to the method of the entity's type
SetMetadata(kind, e, key, id, rev) ==
    IF kind = PersonsColl THEN Person_SetMetadata(e, key, id, rev)
    ELSE Relationship_SetMetadata(e, key, id, rev)

SetTimestamps(kind, e, createdAt, updatedAt) ==
    IF kind = PersonsColl THEN Person_SetTimestamps(e, createdAt, updatedAt)
    ELSE Relationship_SetTimestamps(e, createdAt, updatedAt)

\* json.Marshal of an entity: the attributes of the document sent to the
\* store; an empty omitempty string is left out
Marshal(kind, e) ==
    [f \in {g \in Fields(kind) : ~(g \in OmitEmpty(kind) /\ e[g] = EmptyStr)}
        |-> e[f]]

\* json.Unmarshal of a stored document into a zero entity: an attribute the
\* document lacks keeps its zero value
Unmarshal(kind, doc) ==
    [f \in Fields(kind) |-> IF f \in DOMAIN doc THEN doc[f] ELSE Zero(f)]

--------------------------------------------------------------------------
\* Go values

\* an error is the chain of its messages, the outermost first; the nil
\* error is the empty chain
NoErr == <<>>

\* fmt.Errorf(msg) and fmt.Errorf(msg + ": %w", cause)
Errorf(msg, cause) == <<msg>> \o cause

\* the error a store call returned
StoreError(answer) == <<answer>>

\* a (typed) pointer is a sequence of at most one element; nil is <<>>
NilPtr == <<>>
PtrTo(e) == <<e>>

\* a slice: the nil slice (var xs []T) and an allocated one both have
\* length 0 when empty, but only the first is nil (and marshals to null)
NilSlice == [isNil |-> TRUE, elems |-> <<>>]
AppendSlice(sl, x) == [isNil |-> FALSE, elems |-> Append(sl.elems, x)]

--------------------------------------------------------------------------
\* The store (ArangoDB behind arangodb.Collection / arangodb.Database).
\* store.docs[kind] maps the keys of a collection to its documents,
\* store.keySeq is the key generator, store.revSeq the revision counter.

KeyOf(n) == <<ToString(n)>>
RevOf(n) == <<"r" \o ToString(n)>>
IDOf(kind, key) == <<kind \o "/" \o key[1]>>

\* what the store answers
StoreOK == ""
StoreNotFound == "document not found"
StoreConflict == "unique constraint violated"
StoreInvalidEdge == "edge attribute missing or invalid"
StoreUnavailable == "connection refused"
StoreDuplicateName == "duplicate name"

\* what a store call returns when the caller's context is cancelled or its
\* deadline passes before the store has answered
ContextCanceled == "context canceled"

\* a store call goes through (StoreOK) or fails before the store acts
Failures == {StoreUnavailable, ContextCanceled}
Faults == {StoreOK} \cup Failures

\* the outcomes the services are run against: the store answers or the
\* connection fails
ConnectionFaults == {StoreOK, StoreUnavailable}

\* shared.IsNotFound
IsNotFound(cause) == cause = StoreNotFound

\* a document handle: one run of non-blank characters
IsHandle(s) == Len(s) = 1 /\ s[1] # SP

\* an edge collection only takes documents whose _from and _to are
\* document handles
AcceptsDoc(kind, doc) ==
    kind = RelationshipsColl => IsHandle(doc.From) /\ IsHandle(doc.To)

\* collection.CreateDocument: the key is the document's _key when it has
\* one, a generated key otherwise; _id and _rev are the store's
CreateDocument(kind, S, body, fault) ==
    LET given == "Key" \in DOMAIN body
        key == IF given THEN body.Key ELSE KeyOf(S.keySeq + 1)
        meta == [Key |-> key, ID |-> IDOf(kind, key), Rev |-> RevOf(S.revSeq + 1)]
        doc == [f \in DOMAIN body \cup MetaFields |->
                   IF f \in MetaFields THEN meta[f] ELSE body[f]]
        coll == S.docs[kind]
    IN IF fault # StoreOK THEN [err |-> fault, meta |-> meta, S |-> S]
       ELSE IF ~AcceptsDoc(kind, body)
            THEN [err |-> StoreInvalidEdge, meta |-> meta, S |-> S]
       ELSE IF key \in DOMAIN coll
            THEN [err |-> StoreConflict, meta |-> meta, S |-> S]
       ELSE [err |-> StoreOK, meta |-> meta,
             S |-> [docs |-> [S.docs EXCEPT ![kind] =
                                 [k \in DOMAIN coll \cup {key} |->
                                     IF k = key THEN doc ELSE coll[k]]],
                    keySeq |-> IF given THEN S.keySeq ELSE S.keySeq + 1,
                    revSeq |-> S.revSeq + 1]]

\* collection.ReadDocument
ReadDocument(kind, S, id, fault) ==
    IF fault # StoreOK THEN [err |-> fault, doc |-> << >>]
    ELSE IF id \notin DOMAIN S.docs[kind]
         THEN [err |-> StoreNotFound, doc |-> << >>]
    ELSE [err |-> StoreOK, doc |-> S.docs[kind][id]]

\* an UpdateDocument that inserts the document when the key is missing
UpdateDocument_Upsert(kind, S, id, body, fault) ==
    LET coll == S.docs[kind]
        old == IF id \in DOMAIN coll THEN coll[id] ELSE <<>>
        meta == [Key |-> id, ID |-> IDOf(kind, id), Rev |-> RevOf(S.revSeq + 1)]
        doc == [f \in DOMAIN old \cup DOMAIN body \cup MetaFields |->
                   IF f \in MetaFields THEN meta[f]
                   ELSE IF f \in DOMAIN body THEN body[f] ELSE old[f]]
    IN IF fault # StoreOK THEN [err |-> fault, meta |-> meta, S |-> S]
       ELSE IF ~AcceptsDoc(kind, body)
            THEN [err |-> StoreInvalidEdge, meta |-> meta, S |-> S]
       ELSE [err |-> StoreOK, meta |-> meta,
             S |-> [S EXCEPT !.docs[kind] =
                       [k \in DOMAIN coll \cup {id} |-> IF k = id THEN doc ELSE coll[k]],
                             !.revSeq = S.revSeq + 1]]

\* collection.UpdateDocument: a partial update (PATCH); the attributes of
\* the body replace the stored ones, the others stay, _key and _id cannot
\* change and _rev is a new revision
UpdateDocument(kind, S, id, body, fault) ==
    LET coll == S.docs[kind]
        old == coll[id]
        meta == [Key |-> id, ID |-> IDOf(kind, id), Rev |-> RevOf(S.revSeq + 1)]
        doc == [f \in DOMAIN old \cup DOMAIN body |->
                   IF f \in MetaFields THEN meta[f]
                   ELSE IF f \in DOMAIN body THEN body[f] ELSE old[f]]
    IN IF fault # StoreOK THEN [err |-> fault, meta |-> meta, S |-> S]
       ELSE IF id \notin DOMAIN coll
            THEN [err |-> StoreNotFound, meta |-> meta, S |-> S]
       ELSE IF ~AcceptsDoc(kind, body)
            THEN [err |-> StoreInvalidEdge, meta |-> meta, S |-> S]
       ELSE [err |-> StoreOK, meta |-> meta,
             S |-> [S EXCEPT !.docs[kind] = [coll EXCEPT ![id] = doc],
                             !.revSeq = S.revSeq + 1]]

\* collection.DeleteDocument
DeleteDocument(kind, S, id, fault) ==
    LET coll == S.docs[kind]
    IN IF fault # StoreOK THEN [err |-> fault, S |-> S]
       ELSE IF id \notin DOMAIN coll THEN [err |-> StoreNotFound, S |-> S]
       ELSE [err |-> StoreOK,
             S |-> [S EXCEPT !.docs[kind] =
                       [k \in DOMAIN coll \ {id} |-> coll[k]]]]

\* db.Query("FOR doc IN <collection> RETURN doc"): the documents in the
\* store's iteration order (here the order of their keys)
RECURSIVE Scan(_, _)
Scan(coll, n) ==
    IF n = 0 THEN <<>>
    ELSE Scan(coll, n - 1) \o
             (IF KeyOf(n) \in DOMAIN coll THEN <<coll[KeyOf(n)]>> ELSE <<>>)

Query(kind, S, fault) ==
    IF fault # StoreOK THEN [err |-> fault, cursor |-> <<>>]
    ELSE [err |-> StoreOK, cursor |-> Scan(S.docs[kind], S.keySeq)]

--------------------------------------------------------------------------
\* BaseRepository (internal/repositories/arangorepository).  Each operation
\* takes the collection's kind, the store S, its arguments, the clock
\* reading t where it reads the clock, and the failure its store call meets
\* before the store acts (StoreOK: none); it gives the error it returns, the
\* entity as the caller's pointer sees it afterwards, and the store
\* afterwards.

\* BaseRepository.Create
Create(kind, S, entity, t, fault) ==
    LET stamped == SetTimestamps(kind, entity, t, t)
        r == CreateDocument(kind, S, Marshal(kind, stamped), fault)
    IN IF r.err # StoreOK
       THEN [err |-> Errorf("failed to create entity", StoreError(r.err)),
             entity |-> stamped, S |-> S, calls |-> 1]
       ELSE [err |-> NoErr,
             entity |-> SetMetadata(kind, stamped, r.meta.Key, r.meta.ID, r.meta.Rev),
             S |-> r.S, calls |-> 1]

\* a GetByID that reports every failure of the read as not found
GetByID_AllNotFound(kind, S, id, fault) ==
    LET r == ReadDocument(kind, S, id, fault)
    IN IF r.err # StoreOK
       THEN [err |-> Errorf("entity not found", StoreError(r.err)),
             ptr |-> NilPtr, calls |-> 1]
       ELSE [err |-> NoErr,
             ptr |-> PtrTo(SetMetadata(kind, Unmarshal(kind, r.doc),
                                       r.doc.Key, r.doc.ID, r.doc.Rev)),
             calls |-> 1]

\* BaseRepository.GetByID
GetByID(kind, S, id, fault) ==
    LET r == ReadDocument(kind, S, id, fault)
    IN IF r.err # StoreOK
       THEN IF IsNotFound(r.err)
            THEN [err |-> Errorf("entity not found", StoreError(r.err)),
                  ptr |-> NilPtr, calls |-> 1]
            ELSE [err |-> Errorf("failed to get entity", StoreError(r.err)),
                  ptr |-> NilPtr, calls |-> 1]
       ELSE [err |-> NoErr,
             ptr |-> PtrTo(SetMetadata(kind, Unmarshal(kind, r.doc),
                                       r.doc.Key, r.doc.ID, r.doc.Rev)),
             calls |-> 1]

\* BaseRepository.Update
Update(kind, S, id, entity, t, fault) ==
    LET stamped == SetTimestamps(kind, entity, GetUpdatedAt(entity), t)
        r == UpdateDocument(kind, S, id, Marshal(kind, stamped), fault)
    IN IF r.err # StoreOK
       THEN IF IsNotFound(r.err)
            THEN [err |-> Errorf("entity not found", StoreError(r.err)),
                  entity |-> stamped, S |-> S, calls |-> 1]
            ELSE [err |-> Errorf("failed to update entity", StoreError(r.err)),
                  entity |-> stamped, S |-> S, calls |-> 1]
       ELSE [err |-> NoErr,
             entity |-> SetMetadata(kind, stamped, r.meta.Key, r.meta.ID, r.meta.Rev),
             S |-> r.S, calls |-> 1]

\* a Delete that reports success whatever the store answers
Delete_IgnoreError(kind, S, id, fault) ==
    [err |-> NoErr, S |-> DeleteDocument(kind, S, id, fault).S, calls |-> 1]

\* BaseRepository.Delete
Delete(kind, S, id, fault) ==
    LET r == DeleteDocument(kind, S, id, fault)
    IN IF r.err # StoreOK
       THEN IF IsNotFound(r.err)
            THEN [err |-> Errorf("entity not found", StoreError(r.err)), S |-> S, calls |-> 1]
            ELSE [err |-> Errorf("failed to delete entity", StoreError(r.err)), S |-> S, calls |-> 1]
       ELSE [err |-> NoErr, S |-> r.S, calls |-> 1]

\* the loop of List over the cursor: entities = append(entities, entity)
\* for every document, unless reading one fails
RECURSIVE Materialize(_, _, _)
Materialize(kind, cursor, entities) ==
    IF cursor = <<>> THEN entities
    ELSE Materialize(kind, Tail(cursor),
                     AppendSlice(entities, Unmarshal(kind, Head(cursor))))

\* BaseRepository.List; readFault: cursor.ReadDocument fails on the first
\* document
List(kind, S, fault, readFault) ==
    LET q == Query(kind, S, fault)
    IN IF q.err # StoreOK
       THEN [err |-> Errorf("failed to query entities", StoreError(q.err)),
             entities |-> NilSlice, calls |-> 1]
       ELSE IF q.cursor # <<>> /\ readFault # StoreOK
            THEN [err |-> Errorf("failed to read entity", StoreError(readFault)),
                  entities |-> NilSlice, calls |-> 1]
       ELSE [err |-> NoErr,
             entities |-> Materialize(kind, q.cursor, NilSlice), calls |-> 1]

\* the result of a query the repository reads to the end; readFault:
\* cursor.ReadDocument fails on the first document
ReadAll(kind, q, queryMsg, readMsg, readFault) ==
    IF q.err # StoreOK
    THEN [err |-> Errorf(queryMsg, StoreError(q.err)),
          entities |-> NilSlice, calls |-> 1]
    ELSE IF q.cursor # <<>> /\ readFault # StoreOK
         THEN [err |-> Errorf(readMsg, StoreError(readFault)),
               entities |-> NilSlice, calls |-> 1]
    ELSE [err |-> NoErr,
          entities |-> Materialize(kind, q.cursor, NilSlice), calls |-> 1]

\* a query by name without its filter
QueryByName_NoFilter(S, firstName, lastName, fault) ==
    Query(PersonsColl, S, fault)

\* db.Query of FindByName: FOR p IN persons FILTER (@firstName == "" ||
\* p.firstName == @firstName) AND (@lastName == "" || p.lastName ==
\* @lastName) RETURN p
QueryByName(S, firstName, lastName, fault) ==
    LET all == Query(PersonsColl, S, fault)
        Match(p) ==
            /\ firstName = EmptyStr
                  \/ ("FirstName" \in DOMAIN p /\ p.FirstName = firstName)
            /\ lastName = EmptyStr
                  \/ ("LastName" \in DOMAIN p /\ p.LastName = lastName)
    IN [err |-> all.err, cursor |-> SelectSeq(all.cursor, Match)]

\* PersonRepository.FindByName
FindByName(S, firstName, lastName, fault, readFault) ==
    ReadAll(PersonsColl, QueryByName(S, firstName, lastName, fault),
            "failed to query persons by name", "failed to read person", readFault)

\* a query by person that only looks at _from
QueryByPerson_FromOnly(S, personID, fault) ==
    LET all == Query(RelationshipsColl, S, fault)
        Match(rel) == "From" \in DOMAIN rel /\ rel.From = personID
    IN [err |-> all.err, cursor |-> SelectSeq(all.cursor, Match)]

\* db.Query of FindByPerson: FOR rel IN relationships FILTER rel._from ==
\* @personID || rel._to == @personID RETURN rel
QueryByPerson(S, personID, fault) ==
    LET all == Query(RelationshipsColl, S, fault)
        Match(rel) ==
            \/ "From" \in DOMAIN rel /\ rel.From = personID
            \/ "To" \in DOMAIN rel /\ rel.To = personID
    IN [err |-> all.err, cursor |-> SelectSeq(all.cursor, Match)]

\* RelationshipRepository.FindByPerson
FindByPerson(S, personID, fault, readFault) ==
    ReadAll(RelationshipsColl, QueryByPerson(S, personID, fault),
            "failed to query relationships by person",
            "failed to read relationship", readFault)

\* a query by type without its filter
QueryByType_NoFilter(S, relationType, fault) ==
    Query(RelationshipsColl, S, fault)

\* db.Query of FindByType: FOR rel IN relationships FILTER rel.relationType
\* == @relationType RETURN rel
QueryByType(S, relationType, fault) ==
    LET all == Query(RelationshipsColl, S, fault)
        Match(rel) ==
            "RelationType" \in DOMAIN rel /\ rel.RelationType = relationType
    IN [err |-> all.err, cursor |-> SelectSeq(all.cursor, Match)]

\* RelationshipRepository.FindByType
FindByType(S, relationType, fault, readFault) ==
    ReadAll(RelationshipsColl, QueryByType(S, relationType, fault),
            "failed to query relationships by type",
            "failed to read relationship", readFault)

--------------------------------------------------------------------------
\* PersonService (internal/services/v1personservice)

\* isValidEmail
isValidEmail(email) ==
    LET parts == Split(email, "@")
    IN IF Len(parts) # 2 THEN FALSE
       ELSE IF Len(parts[1]) = 0 \/ Len(parts[2]) = 0 THEN FALSE
       ELSE IF ~Contains(parts[2], ".") THEN FALSE
       ELSE TRUE

\* PersonService.validateCreateRequest
Person_validateCreateRequest(req) ==
    IF TrimSpace(req.FirstName) = EmptyStr THEN Errorf("firstName is required", NoErr)
    ELSE IF TrimSpace(req.LastName) = EmptyStr THEN Errorf("lastName is required", NoErr)
    ELSE IF req.Email # EmptyStr /\ ~isValidEmail(req.Email)
         THEN Errorf("invalid email format", NoErr)
    ELSE NoErr

\* the entity CreatePerson builds from a request
PersonFromRequest(req) ==
    [ZeroEntity(PersonsColl) EXCEPT
        !.FirstName = TrimSpace(req.FirstName),
        !.LastName = TrimSpace(req.LastName),
        !.BirthDate = req.BirthDate,
        !.DeathDate = req.DeathDate,
        !.Gender = TrimSpace(req.Gender),
        !.Email = TrimSpace(req.Email),
        !.Phone = TrimSpace(req.Phone)]

\* A service operation gives: err, the error returned; ptr, the entity
\* returned; S, the store afterwards; calls, the store calls issued; ticks,
\* the clock readings taken; fn, the last repository function reached ("" if
\* none); arg and entity, the entity handed to that function and the same
\* entity when the function returned.

\* PersonService.CreatePerson
CreatePerson(S, req, t, fault) ==
    LET verr == Person_validateCreateRequest(req)
        person == PersonFromRequest(req)
        r == Create(PersonsColl, S, person, t, fault)
    IN IF verr # NoErr
       THEN [err |-> verr, ptr |-> NilPtr, S |-> S, calls |-> 0, ticks |-> 0,
             fn |-> "", arg |-> NilPtr, entity |-> NilPtr]
       ELSE IF r.err # NoErr
            THEN [err |-> Errorf("failed to create person", r.err), ptr |-> NilPtr,
                  S |-> r.S, calls |-> r.calls, ticks |-> 1,
                  fn |-> "Create", arg |-> PtrTo(person), entity |-> PtrTo(r.entity)]
       ELSE [err |-> NoErr, ptr |-> PtrTo(r.entity),
             S |-> r.S, calls |-> r.calls, ticks |-> 1,
             fn |-> "Create", arg |-> PtrTo(person), entity |-> PtrTo(r.entity)]

\* PersonService.GetPerson
GetPerson(S, id, fault) ==
    LET r == GetByID(PersonsColl, S, id, fault)
    IN IF id = EmptyStr
       THEN [err |-> Errorf("person ID is required", NoErr), ptr |-> NilPtr, S |-> S,
             calls |-> 0, ticks |-> 0, fn |-> "", arg |-> NilPtr, entity |-> NilPtr]
       ELSE [err |-> r.err, ptr |-> r.ptr, S |-> S, calls |-> r.calls, ticks |-> 0,
             fn |-> "GetByID", arg |-> NilPtr, entity |-> r.ptr]

\* an UpdatePerson that assigns every field of the request, empty or not
PersonApplyUpdate_AllFields(person, req) ==
    [person EXCEPT
        !.FirstName = TrimSpace(req.FirstName),
        !.LastName = TrimSpace(req.LastName),
        !.BirthDate = req.BirthDate,
        !.DeathDate = req.DeathDate,
        !.Gender = TrimSpace(req.Gender),
        !.Email = TrimSpace(req.Email),
        !.Phone = TrimSpace(req.Phone)]

\* the assignments of UpdatePerson: a field of the request that is not
\* empty (not zero, for a date) replaces the person's
PersonApplyUpdate(person, req) ==
    [person EXCEPT
        !.FirstName = IF req.FirstName # EmptyStr THEN TrimSpace(req.FirstName) ELSE @,
        !.LastName = IF req.LastName # EmptyStr THEN TrimSpace(req.LastName) ELSE @,
        !.BirthDate = IF req.BirthDate # 0 THEN req.BirthDate ELSE @,
        !.DeathDate = IF req.DeathDate # 0 THEN req.DeathDate ELSE @,
        !.Gender = IF req.Gender # EmptyStr THEN TrimSpace(req.Gender) ELSE @,
        !.Email = IF req.Email # EmptyStr THEN TrimSpace(req.Email) ELSE @,
        !.Phone = IF req.Phone # EmptyStr THEN TrimSpace(req.Phone) ELSE @]

\* PersonService.UpdatePerson
UpdatePerson(S, id, req, t, faultGet, faultUpdate) ==
    LET g == GetByID(PersonsColl, S, id, faultGet)
        person == PersonApplyUpdate(g.ptr[1], req)
        r == Update(PersonsColl, S, id, person, t, faultUpdate)
    IN IF id = EmptyStr
       THEN [err |-> Errorf("person ID is required", NoErr), ptr |-> NilPtr, S |-> S,
             calls |-> 0, ticks |-> 0, fn |-> "", arg |-> NilPtr, entity |-> NilPtr]
       ELSE IF g.err # NoErr
            THEN [err |-> g.err, ptr |-> NilPtr, S |-> S, calls |-> g.calls, ticks |-> 0,
                  fn |-> "GetByID", arg |-> NilPtr, entity |-> g.ptr]
       ELSE IF r.err # NoErr
            THEN [err |-> Errorf("failed to update person", r.err), ptr |-> NilPtr,
                  S |-> r.S, calls |-> g.calls + r.calls, ticks |-> 1,
                  fn |-> "Update", arg |-> PtrTo(person), entity |-> PtrTo(r.entity)]
       ELSE [err |-> NoErr, ptr |-> PtrTo(r.entity),
             S |-> r.S, calls |-> g.calls + r.calls, ticks |-> 1,
             fn |-> "Update", arg |-> PtrTo(person), entity |-> PtrTo(r.entity)]

\* a DeletePerson that also removes the relationships of the person
DeletePerson_Cascade(S, id, fault) ==
    LET r == Delete(PersonsColl, S, id, fault)
        rels == r.S.docs[RelationshipsColl]
        ref == IDOf(PersonsColl, id)
        kept == {k \in DOMAIN rels : rels[k].From # ref /\ rels[k].To # ref}
    IN IF id = EmptyStr
       THEN [err |-> Errorf("person ID is required", NoErr), ptr |-> NilPtr, S |-> S,
             calls |-> 0, ticks |-> 0, fn |-> "", arg |-> NilPtr, entity |-> NilPtr]
       ELSE [err |-> r.err, ptr |-> NilPtr,
             S |-> [r.S EXCEPT !.docs[RelationshipsColl] = [k \in kept |-> rels[k]]],
             calls |-> r.calls, ticks |-> 0,
             fn |-> "Delete", arg |-> NilPtr, entity |-> NilPtr]

\* PersonService.DeletePerson
DeletePerson(S, id, fault) ==
    LET r == Delete(PersonsColl, S, id, fault)
    IN IF id = EmptyStr
       THEN [err |-> Errorf("person ID is required", NoErr), ptr |-> NilPtr, S |-> S,
             calls |-> 0, ticks |-> 0, fn |-> "", arg |-> NilPtr, entity |-> NilPtr]
       ELSE [err |-> r.err, ptr |-> NilPtr, S |-> r.S, calls |-> r.calls, ticks |-> 0,
             fn |-> "Delete", arg |-> NilPtr, entity |-> NilPtr]

\* PersonService.SearchPersonsByName
SearchPersonsByName(S, firstName, lastName, fault, readFault) ==
    LET args == [FirstName |-> TrimSpace(firstName), LastName |-> TrimSpace(lastName)]
        r == FindByName(S, args.FirstName, args.LastName, fault, readFault)
    IN [err |-> r.err, entities |-> r.entities, calls |-> r.calls,
        fn |-> "FindByName", arg |-> PtrTo(args)]

\* PersonService.ListPersons
ListPersons(S, fault, readFault) ==
    LET r == List(PersonsColl, S, fault, readFault)
    IN [err |-> r.err, entities |-> r.entities, calls |-> r.calls]

--------------------------------------------------------------------------
\* RelationshipService (internal/services/v1relationshipservice)

\* validTypes
validTypes ==
    {RelationTypeParent, RelationTypeChild, RelationTypeSpouse, RelationTypeSibling}

\* a validateCreateRequest that lets a relationship of a person with
\* itself through
Relationship_validateCreateRequest_NoLoopCheck(req) ==
    IF TrimSpace(req.From) = EmptyStr THEN Errorf("from is required", NoErr)
    ELSE IF TrimSpace(req.To) = EmptyStr THEN Errorf("to is required", NoErr)
    ELSE IF TrimSpace(req.RelationType) = EmptyStr
         THEN Errorf("relationType is required", NoErr)
    ELSE IF req.RelationType \notin validTypes
         THEN Errorf("invalid relationship type", NoErr)
    ELSE NoErr

\* RelationshipService.validateCreateRequest
Relationship_validateCreateRequest(req) ==
    IF TrimSpace(req.From) = EmptyStr THEN Errorf("from is required", NoErr)
    ELSE IF TrimSpace(req.To) = EmptyStr THEN Errorf("to is required", NoErr)
    ELSE IF TrimSpace(req.RelationType) = EmptyStr
         THEN Errorf("relationType is required", NoErr)
    ELSE IF req.From = req.To
         THEN Errorf("from and to must be different persons", NoErr)
    ELSE IF req.RelationType \notin validTypes
         THEN Errorf("invalid relationship type", NoErr)
    ELSE NoErr

\* the entity CreateRelationship builds from a request
RelationshipFromRequest(req) ==
    [ZeroEntity(RelationshipsColl) EXCEPT
        !.From = TrimSpace(req.From),
        !.To = TrimSpace(req.To),
        !.RelationType = TrimSpace(req.RelationType),
        !.StartDate = req.StartDate,
        !.EndDate = req.EndDate,
        !.Notes = TrimSpace(req.Notes)]

\* RelationshipService.CreateRelationship
CreateRelationship(S, req, t, fault) ==
    LET verr == Relationship_validateCreateRequest(req)
        relationship == RelationshipFromRequest(req)
        r == Create(RelationshipsColl, S, relationship, t, fault)
    IN IF verr # NoErr
       THEN [err |-> verr, ptr |-> NilPtr, S |-> S, calls |-> 0, ticks |-> 0,
             fn |-> "", arg |-> NilPtr, entity |-> NilPtr]
       ELSE IF r.err # NoErr
            THEN [err |-> Errorf("failed to create relationship", r.err), ptr |-> NilPtr,
                  S |-> r.S, calls |-> r.calls, ticks |-> 1,
                  fn |-> "Create", arg |-> PtrTo(relationship), entity |-> PtrTo(r.entity)]
       ELSE [err |-> NoErr, ptr |-> PtrTo(r.entity),
             S |-> r.S, calls |-> r.calls, ticks |-> 1,
             fn |-> "Create", arg |-> PtrTo(relationship), entity |-> PtrTo(r.entity)]

\* RelationshipService.GetRelationship
GetRelationship(S, id, fault) ==
    LET r == GetByID(RelationshipsColl, S, id, fault)
    IN IF id = EmptyStr
       THEN [err |-> Errorf("relationship ID is required", NoErr), ptr |-> NilPtr,
             S |-> S, calls |-> 0, ticks |-> 0,
             fn |-> "", arg |-> NilPtr, entity |-> NilPtr]
       ELSE [err |-> r.err, ptr |-> r.ptr, S |-> S, calls |-> r.calls, ticks |-> 0,
             fn |-> "GetByID", arg |-> NilPtr, entity |-> r.ptr]

\* the assignments of UpdateRelationship
RelationshipApplyUpdate(relationship, req) ==
    [relationship EXCEPT
        !.From = IF req.From # EmptyStr THEN TrimSpace(req.From) ELSE @,
        !.To = IF req.To # EmptyStr THEN TrimSpace(req.To) ELSE @,
        !.RelationType =
            IF req.RelationType # EmptyStr THEN TrimSpace(req.RelationType) ELSE @,
        !.StartDate = IF req.StartDate # 0 THEN req.StartDate ELSE @,
        !.EndDate = IF req.EndDate # 0 THEN req.EndDate ELSE @,
        !.Notes = IF req.Notes # EmptyStr THEN TrimSpace(req.Notes) ELSE @]

\* RelationshipService.UpdateRelationship
UpdateRelationship(S, id, req, t, faultGet, faultUpdate) ==
    LET g == GetByID(RelationshipsColl, S, id, faultGet)
        relationship == RelationshipApplyUpdate(g.ptr[1], req)
        r == Update(RelationshipsColl, S, id, relationship, t, faultUpdate)
    IN IF id = EmptyStr
       THEN [err |-> Errorf("relationship ID is required", NoErr), ptr |-> NilPtr,
             S |-> S, calls |-> 0, ticks |-> 0,
             fn |-> "", arg |-> NilPtr, entity |-> NilPtr]
       ELSE IF g.err # NoErr
            THEN [err |-> g.err, ptr |-> NilPtr, S |-> S, calls |-> g.calls, ticks |-> 0,
                  fn |-> "GetByID", arg |-> NilPtr, entity |-> g.ptr]
       ELSE IF r.err # NoErr
            THEN [err |-> Errorf("failed to update relationship", r.err), ptr |-> NilPtr,
                  S |-> r.S, calls |-> g.calls + r.calls, ticks |-> 1,
                  fn |-> "Update", arg |-> PtrTo(relationship),
                  entity |-> PtrTo(r.entity)]
       ELSE [err |-> NoErr, ptr |-> PtrTo(r.entity),
             S |-> r.S, calls |-> g.calls + r.calls, ticks |-> 1,
             fn |-> "Update", arg |-> PtrTo(relationship), entity |-> PtrTo(r.entity)]

\* RelationshipService.DeleteRelationship
DeleteRelationship(S, id, fault) ==
    LET r == Delete(RelationshipsColl, S, id, fault)
    IN IF id = EmptyStr
       THEN [err |-> Errorf("relationship ID is required", NoErr), ptr |-> NilPtr,
             S |-> S, calls |-> 0, ticks |-> 0,
             fn |-> "", arg |-> NilPtr, entity |-> NilPtr]
       ELSE [err |-> r.err, ptr |-> NilPtr, S |-> r.S, calls |-> r.calls, ticks |-> 0,
             fn |-> "Delete", arg |-> NilPtr, entity |-> NilPtr]

\* RelationshipService.GetRelationshipsForPerson
GetRelationshipsForPerson(S, personID, fault, readFault) ==
    LET r == FindByPerson(S, personID, fault, readFault)
    IN IF personID = EmptyStr
       THEN [err |-> Errorf("person ID is required", NoErr), entities |-> NilSlice,
             calls |-> 0, fn |-> "", arg |-> NilPtr]
       ELSE [err |-> r.err, entities |-> r.entities, calls |-> r.calls,
             fn |-> "FindByPerson", arg |-> PtrTo([PersonID |-> personID])]

\* RelationshipService.GetRelationshipsByType
GetRelationshipsByType(S, relationType, fault, readFault) ==
    LET r == FindByType(S, relationType, fault, readFault)
    IN IF relationType = EmptyStr
       THEN [err |-> Errorf("relationship type is required", NoErr),
             entities |-> NilSlice, calls |-> 0, fn |-> "", arg |-> NilPtr]
       ELSE [err |-> r.err, entities |-> r.entities, calls |-> r.calls,
             fn |-> "FindByType", arg |-> PtrTo([RelationType |-> relationType])]

\* RelationshipService.ListRelationships
ListRelationships(S, fault, readFault) ==
    LET r == List(RelationshipsColl, S, fault, readFault)
    IN [err |-> r.err, entities |-> r.entities, calls |-> r.calls]

--------------------------------------------------------------------------
\* Inputs

Ada == <<"Ada">>
Charles == <<"Charles">>
Lovelace == <<"Lovelace">>
GoodEmail == <<"ada", "@", "example", ".", "org">>
PersonA == <<"persons/1">>
PersonB == <<"persons/2">>
Mentor == <<"mentor">>

FirstNames == {EmptyStr, <<SP>>, Ada, <<SP, "Charles">>}
LastNames == {<<SP, SP>>, Lovelace}
Emails ==
    {EmptyStr, GoodEmail, <<"ada">>, <<"ada", "@", "example">>,
     <<"@", "example", ".", "org">>,
     <<"ada", "@", "b", "@", "example", ".", "org">>}

BasePersonCreate ==
    [FirstName |-> Ada, LastName |-> Lovelace, BirthDate |-> 0, DeathDate |-> 0,
     Gender |-> EmptyStr, Email |-> EmptyStr, Phone |-> EmptyStr]

PersonCreateRequests ==
    {[BasePersonCreate EXCEPT !.FirstName = f] : f \in FirstNames} \cup
    {[BasePersonCreate EXCEPT !.LastName = l] : l \in LastNames} \cup
    {[BasePersonCreate EXCEPT !.Email = e] : e \in Emails} \cup
    {[BasePersonCreate EXCEPT !.BirthDate = 1, !.Gender = <<"female">>]}

NoPersonUpdate ==
    [FirstName |-> EmptyStr, LastName |-> EmptyStr, BirthDate |-> 0, DeathDate |-> 0,
     Gender |-> EmptyStr, Email |-> EmptyStr, Phone |-> EmptyStr]

PersonUpdateRequests ==
    {NoPersonUpdate,
     [NoPersonUpdate EXCEPT !.FirstName = Charles],
     [NoPersonUpdate EXCEPT !.FirstName = <<SP>>],
     [NoPersonUpdate EXCEPT !.Email = <<"ada">>, !.DeathDate = 2, !.Phone = <<"555">>]}

Froms == {EmptyStr, PersonA, <<SP, "persons/2">>}
Tos == {<<SP>>, PersonB, PersonA, <<"persons/1", SP>>}
RelationTypes ==
    {EmptyStr, RelationTypeParent, RelationTypeSibling, Mentor, <<SP, "parent">>}

BaseRelationshipCreate ==
    [From |-> PersonA, To |-> PersonB, RelationType |-> RelationTypeSibling,
     StartDate |-> 0, EndDate |-> 0, Notes |-> EmptyStr]

RelationshipCreateRequests ==
    {[BaseRelationshipCreate EXCEPT !.From = f] : f \in Froms} \cup
    {[BaseRelationshipCreate EXCEPT !.To = t] : t \in Tos} \cup
    {[BaseRelationshipCreate EXCEPT !.RelationType = r] : r \in RelationTypes} \cup
    {[BaseRelationshipCreate EXCEPT !.StartDate = 1, !.Notes = <<"twins">>]}

NoRelationshipUpdate ==
    [From |-> EmptyStr, To |-> EmptyStr, RelationType |-> EmptyStr,
     StartDate |-> 0, EndDate |-> 0, Notes |-> EmptyStr]

RelationshipUpdateRequests ==
    {NoRelationshipUpdate,
     [NoRelationshipUpdate EXCEPT !.From = PersonB],
     [NoRelationshipUpdate EXCEPT !.To = <<SP>>],
     [NoRelationshipUpdate EXCEPT !.RelationType = Mentor, !.EndDate = 2]}

\* the transient entities a caller of the repository builds
NewEntities(kind) ==
    IF kind = PersonsColl
    THEN {PersonFromRequest(BasePersonCreate),
          PersonFromRequest([BasePersonCreate EXCEPT !.Email = GoodEmail])}
    ELSE {RelationshipFromRequest(BaseRelationshipCreate)}

\* what the finders are asked for
PersonC == <<"persons/3">>
SearchFirstNames == {EmptyStr, Ada, Charles}
SearchLastNames == {EmptyStr, Lovelace}
SearchPersonIDs == {PersonA, PersonB, PersonC}
SearchTypes == {RelationTypeParent, RelationTypeSibling, RelationTypeSpouse, Mentor}

\* the store call of an update that meets a failure, if any
FaultAt == {"none", "get", "update"}
FaultOf(at, call, cause) == IF at = call THEN cause ELSE StoreOK

\* the ids a caller asks for: the keys the store has given out, and the next
Ids(S) == {KeyOf(n) : n \in 1..(S.keySeq + 1)}

--------------------------------------------------------------------------
\* State

VARIABLES
    focus,      \* the collections this run works on
    now,        \* the wall clock: the next reading of time.Now()
    store,      \* the database: docs, keySeq, revSeq
    held,       \* the entity a direct caller of the repository holds
    lastOp,     \* the last operation: arguments and results
    pc,         \* NewClient of each instance: where it is
    catalog,    \* the store's databases and collections
    bootErr,    \* NewClient / Init of each instance: the error it returned
    globals,    \* package clients of each instance: which globals are set
    options,    \* a call of ApplyOptions: the Options and the functions left
    hook,       \* a mounted useApiData: its state cells and its fetches
    updates,    \* the update calls of two concurrent callers: where each is
    http        \* the HTTP API server: its rate limiter and the last exchange

vars ==
    <<focus, now, store, held, lastOp, pc, catalog, bootErr, globals, options,
      hook, updates, http>>

\* the state of the parts that stand beside the store and its clients
sideVars == <<options, hook, updates, http>>

crudVars == <<focus, now, store, held, lastOp>>
bootVars == <<pc, catalog, bootErr, globals>>

NoOp ==
    [op |-> "", kind |-> "", id |-> EmptyStr, req |-> <<>>, fn |-> "",
     arg |-> NilPtr, entity |-> NilPtr, err |-> NoErr, ptr |-> NilPtr,
     entities |-> NilSlice, calls |-> 0]

NoHeld == <<>>

Instances == 1..NumInstances

\* var ( ArangoClient, PersonService, RelationshipService ) of package
\* clients: which of them are set (non-nil)
NoGlobals ==
    [ArangoClient |-> FALSE, PersonService |-> FALSE, RelationshipService |-> FALSE]
AllGlobals ==
    [ArangoClient |-> TRUE, PersonService |-> TRUE, RelationshipService |-> TRUE]

--------------------------------------------------------------------------
\* Options (pkg/clients/arangodbclient).  An OptionFunc is the field it
\* assigns and the value it assigns; durations are in seconds.

\* Longest list of option functions handed to ApplyOptions.
MaxOptions == 3

WithEndpoints(endpoints) == [field |-> "Endpoints", value |-> endpoints]
WithUsername(username) == [field |-> "Username", value |-> username]
\* a WithPassword that assigns the user name
WithPassword_SetsUsername(password) == [field |-> "Username", value |-> password]
WithPassword(password) == [field |-> "Password", value |-> password]
WithDatabase(database) == [field |-> "Database", value |-> database]
WithTimeout(timeout) == [field |-> "Timeout", value |-> timeout]
WithMaxRetries(maxRetries) == [field |-> "MaxRetries", value |-> maxRetries]
WithRetryDelay(retryDelay) == [field |-> "RetryDelay", value |-> retryDelay]

\* fn(opts)
CallOption(fn, o) == [o EXCEPT ![fn.field] = fn.value]

DefaultOptions ==
    [Endpoints |-> <<"http://localhost:8529">>, Username |-> "root",
     Password |-> "", Database |-> "familytree", Timeout |-> 30,
     MaxRetries |-> 3, RetryDelay |-> 1]

\* ApplyOptions: for _, fn := range optFuncs { fn(opts) }
RECURSIVE ApplyOptions(_, _)
ApplyOptions(opts, optFuncs) ==
    IF optFuncs = <<>> THEN opts
    ELSE ApplyOptions(CallOption(Head(optFuncs), opts), Tail(optFuncs))

\* the option functions a caller builds: the constructor and its argument
OptionCalls ==
    [with : {"WithEndpoints"}, arg : {<<"http://db1:8529">>,
                                      <<"http://db1:8529", "http://db2:8529">>}]
    \cup [with : {"WithUsername", "WithPassword"}, arg : {"admin", ""}]
    \cup [with : {"WithDatabase"}, arg : {"familytree", "test"}]
    \cup [with : {"WithTimeout", "WithRetryDelay"}, arg : {0, 5}]
    \cup [with : {"WithMaxRetries"}, arg : {0, 3}]

\* the OptionFunc a constructor returns
OptionFunc(call) ==
    CASE call.with = "WithEndpoints" -> WithEndpoints(call.arg)
      [] call.with = "WithUsername" -> WithUsername(call.arg)
      [] call.with = "WithPassword" -> WithPassword(call.arg)
      [] call.with = "WithDatabase" -> WithDatabase(call.arg)
      [] call.with = "WithTimeout" -> WithTimeout(call.arg)
      [] call.with = "WithMaxRetries" -> WithMaxRetries(call.arg)
      [] call.with = "WithRetryDelay" -> WithRetryDelay(call.arg)

\* no call of ApplyOptions is under way
NoOptions == [opts |-> DefaultOptions, calls |-> <<>>, done |-> 0, result |-> <<>>]

--------------------------------------------------------------------------
\* useApiData (hooks/useApiData.ts): the state of one mounted hook.
\* data, isLoading and error are the three useState cells; a fetch is one
\* call of fetchData, from the effect after the mount or from refetch.
\* A string | null is a sequence of at most one message.

\* Most calls of fetchData one mounted hook makes.
MaxFetches == 2

Undefined == "undefined"
Null == <<>>

\* what fetchFn can resolve to: two arrays and something that is no array
Results == {"persons1", "persons2", "notAnArray"}

\* isArray, the type guard the callers hand in as validateData
isArray(result) == result # "notAnArray"

InvalidFormat == "Invalid data format received from API"
FailedToLoad == "Failed to load data"

\* what fetchFn can reject with: an Error, or a value that is no Error
Rejections ==
    {[isError |-> TRUE, message |-> "Network Error"],
     [isError |-> FALSE, message |-> "timeout"]}

Outcomes ==
    [kind : {"resolve"}, value : Results] \cup [kind : {"reject"}, value : Rejections]

\* the props of a mount: initialData (none when left out), and whether
\* validateData and onError were handed in
HookProps == [initialData : {<<>>, <<"initial">>}, validateData : BOOLEAN, onError : BOOLEAN]

NoHook ==
    [mounted |-> FALSE,
     props |-> [initialData |-> <<>>, validateData |-> FALSE, onError |-> FALSE],
     data |-> Undefined, isLoading |-> FALSE, error |-> Null,
     fetches |-> <<>>, settled |-> <<>>, reported |-> <<>>]

\* useState(initialData as T), useState(true), useState(null)
UseState(props) ==
    [NoHook EXCEPT
        !.mounted = TRUE,
        !.props = props,
        !.data = IF props.initialData = <<>> THEN Undefined ELSE props.initialData[1],
        !.isLoading = TRUE,
        !.error = Null]

\* fetchData up to its await: setIsLoading(true); setError(null); fetchFn()
FetchBegin(h) ==
    [h EXCEPT
        !.isLoading = TRUE,
        !.error = Null,
        !.fetches = Append(@, "pending"),
        !.settled = <<>>]

\* what the try block throws once fetchFn has settled with outcome, if it does
Thrown(h, outcome) ==
    IF outcome.kind = "reject" THEN <<outcome.value>>
    ELSE IF h.props.validateData /\ ~isArray(outcome.value)
         THEN <<[isError |-> TRUE, message |-> InvalidFormat]>>
         ELSE <<>>

\* fetchData from its await on, for fetch n: setData(result), or the catch
\* block; then finally setIsLoading(false)
FetchSettle(h, n, outcome) ==
    LET thrown == Thrown(h, outcome) IN
    IF thrown = <<>>
    THEN [h EXCEPT
             !.data = outcome.value,
             !.isLoading = FALSE,
             !.fetches[n] = "settled",
             !.settled = <<[n |-> n, outcome |-> outcome]>>]
    ELSE [h EXCEPT
             !.error = <<IF thrown[1].isError THEN thrown[1].message ELSE FailedToLoad>>,
             !.data = IF h.props.initialData # <<>> THEN h.props.initialData[1] ELSE @,
             !.reported = IF h.props.onError /\ thrown[1].isError
                          THEN Append(@, thrown[1].message) ELSE @,
             !.isLoading = FALSE,
             !.fetches[n] = "settled",
             !.settled = <<[n |-> n, outcome |-> outcome]>>]

--------------------------------------------------------------------------
\* UpdatePerson / UpdateRelationship as two store calls with other callers
\* running between them: the read by GetByID, then the write by Update of
\* the entity that was read, with the request's fields assigned.

Callers == {"first", "second"}

\* no update call of this caller is under way
NoUpdate ==
    [pc |-> "idle", kind |-> "", id |-> EmptyStr, req |-> <<>>,
     entity |-> NilPtr, err |-> NoErr, ptr |-> NilPtr]

NoUpdates == [c \in Callers |-> NoUpdate]

ApplyUpdate(kind, entity, req) ==
    IF kind = PersonsColl THEN PersonApplyUpdate(entity, req)
    ELSE RelationshipApplyUpdate(entity, req)

\* UpdatePerson / UpdateRelationship up to the call of repo.Update: the id
\* check, GetByID and the assignments
UpdateFetch(kind, S, id, req, fault) ==
    LET g == GetByID(kind, S, id, fault)
    IN IF id = EmptyStr
       THEN [err |-> Errorf(IF kind = PersonsColl THEN "person ID is required"
                            ELSE "relationship ID is required", NoErr),
             entity |-> NilPtr]
       ELSE IF g.err # NoErr THEN [err |-> g.err, entity |-> NilPtr]
       ELSE [err |-> NoErr, entity |-> PtrTo(ApplyUpdate(kind, g.ptr[1], req))]

\* UpdatePerson / UpdateRelationship from the call of repo.Update on
UpdateWrite(kind, S, id, entity, t, fault) ==
    LET r == Update(kind, S, id, entity, t, fault)
    IN IF r.err # NoErr
       THEN [err |-> Errorf(IF kind = PersonsColl THEN "failed to update person"
                            ELSE "failed to update relationship", r.err),
             ptr |-> NilPtr, S |-> r.S]
       ELSE [err |-> NoErr, ptr |-> PtrTo(r.entity), S |-> r.S]

\* the requests of the concurrent callers: each sets fields to values that
\* are stored as they are
ConcurrentRequests(kind) ==
    IF kind = PersonsColl
    THEN {[NoPersonUpdate EXCEPT !.FirstName = Charles],
          [NoPersonUpdate EXCEPT !.Email = <<"ada">>, !.DeathDate = 2, !.Phone = <<"555">>]}
    ELSE {[NoRelationshipUpdate EXCEPT !.From = PersonB],
          [NoRelationshipUpdate EXCEPT !.RelationType = Mentor, !.EndDate = 2]}

--------------------------------------------------------------------------
\* The HTTP API (internal/httpserver): the server's handler chain, the
\* router and the persons and relationships handlers.  A URL path is the
\* sequence of its segments and slashes: "/v1/persons/1" is
\* <<"/", "v1", "/", "persons", "/", "1">>.  A request body is the request
\* it decodes to, or nothing when it does not decode.  An exchange gives
\* the status written, the functions the request went through (trail), the
\* error the service returned, and the store afterwards.

\* strings.HasPrefix, strings.TrimPrefix
HasPrefix(s, prefix) ==
    Len(s) >= Len(prefix) /\ SubSeq(s, 1, Len(prefix)) = prefix
TrimPrefix(s, prefix) ==
    IF HasPrefix(s, prefix) THEN SubSeq(s, Len(prefix) + 1, Len(s)) ELSE s

StatusOK == 200
StatusCreated == 201
StatusNoContent == 204
StatusBadRequest == 400
StatusUnauthorized == 401
StatusNotFound == 404
StatusMethodNotAllowed == 405
StatusInternalServerError == 500

\* "/v1/persons" and "/v1/persons/" (and the same for relationships)
RoutePath(kind) == <<"/", "v1", "/", kind>>
RoutePrefix(kind) == RoutePath(kind) \o <<"/">>

\* what the store answers to a key it does not take as one (a key with a
\* slash in it): not found, or this
StoreBadKey == "illegal document key"

\* strings.Contains(err.Error(), "not found"): the messages of the
\* services, the repository and the store with "not found" in them
NotFoundTexts == {"entity not found", StoreNotFound}
ContainsNotFound(err) == \E i \in DOMAIN err : err[i] \in NotFoundTexts

\* where the handler chain takes a request: the status it writes by
\* itself, or the service method a handler calls (call, for kind, id and
\* body), and the functions the request goes through
Answered(status, trail) ==
    [status |-> status, trail |-> trail, call |-> "", kind |-> "",
     id |-> EmptyStr, body |-> <<>>]
Calls(call, kind, id, body, trail) ==
    [status |-> 0, trail |-> trail, call |-> call, kind |-> kind,
     id |-> id, body |-> body]

\* a function of the chain hands the request on to next
Through(fn, next) == [next EXCEPT !.trail = fn \o @]

\* Handler.GetPerson / Handler.GetRelationship, up to the service
Handler_Get(kind, id) ==
    Calls("Get", kind, id, <<>>, <<"Handler.Get", "service.Get">>)

\* Handler.UpdatePerson / Handler.UpdateRelationship, up to the service
Handler_Update(kind, id, body) ==
    IF body = <<>> THEN Answered(StatusBadRequest, <<"Handler.Update">>)
    ELSE Calls("Update", kind, id, body, <<"Handler.Update", "service.Update">>)

\* Handler.DeletePerson / Handler.DeleteRelationship, up to the service
Handler_Delete(kind, id) ==
    Calls("Delete", kind, id, <<>>, <<"Handler.Delete", "service.Delete">>)

\* Handler.CreatePerson / Handler.CreateRelationship, up to the service
Handler_Create(kind, body) ==
    IF body = <<>> THEN Answered(StatusBadRequest, <<"Handler.Create">>)
    ELSE Calls("Create", kind, EmptyStr, body, <<"Handler.Create", "service.Create">>)

\* Handler.ListPersons / Handler.ListRelationships, up to the service
Handler_List(kind) ==
    Calls("List", kind, EmptyStr, <<>>, <<"Handler.List", "service.List">>)

\* Handler.HandlePersons / Handler.HandleRelationships
HandleEntities(kind, req) ==
    LET id == TrimPrefix(req.path, RoutePrefix(kind))
    IN Through(<<"Handle." \o kind>>,
          CASE req.method = "GET" ->
                  IF HasPrefix(req.path, RoutePrefix(kind)) /\ id # EmptyStr
                  THEN Handler_Get(kind, id)
                  ELSE Handler_List(kind)
            [] req.method = "POST" -> Handler_Create(kind, req.body)
            [] req.method = "PUT" ->
                  IF id = EmptyStr THEN Answered(StatusBadRequest, <<>>)
                  ELSE Handler_Update(kind, id, req.body)
            [] req.method = "DELETE" ->
                  IF id = EmptyStr THEN Answered(StatusBadRequest, <<>>)
                  ELSE Handler_Delete(kind, id)
            [] OTHER -> Answered(StatusMethodNotAllowed, <<>>))

\* Router.handleAPIRoutes
handleAPIRoutes(req) ==
    LET routed == {kind \in Kinds :
                      req.path = RoutePath(kind) \/ HasPrefix(req.path, RoutePrefix(kind))}
    IN Through(<<"handleAPIRoutes">>,
          IF routed # {} THEN HandleEntities(CHOOSE kind \in routed : TRUE, req)
          ELSE Answered(StatusNotFound, <<>>))

\* Router.v1Router: authMiddleware.Authenticate around
\* middleware.JSONContentType(r.handleAPIRoutes).  Authenticate either
\* calls the handler it wraps or answers the request itself.
v1Router(req, authenticated) ==
    Through(<<"v1Router", "Authenticate">>,
       IF authenticated THEN Through(<<"JSONContentType">>, handleAPIRoutes(req))
       ELSE Answered(StatusUnauthorized, <<>>))

\* the ServeMux of NewRouter / registerRoutes: "/swagger/" and "/v1/".
\* The rateLimiter handed to NewRouter is not kept.
ServeMux(rateLimiter, req, authenticated) ==
    Through(<<"ServeMux">>,
       IF HasPrefix(req.path, <<"/", "v1", "/">>) THEN v1Router(req, authenticated)
       ELSE IF HasPrefix(req.path, <<"/", "swagger", "/">>)
            THEN Answered(StatusOK, <<"httpSwagger">>)
       ELSE Answered(StatusNotFound, <<>>))

\* the server's handler: corsMiddleware.Handler(router).  The CORS
\* middleware answers a preflight itself and passes every other request on.
ServeHTTP(rateLimiter, req, authenticated) ==
    Through(<<"CORS">>,
       IF req.method = "OPTIONS" THEN Answered(StatusNoContent, <<>>)
       ELSE ServeMux(rateLimiter, req, authenticated))

\* the service methods of the two handlers
ServiceGet(kind, S, id, fault) ==
    IF kind = PersonsColl THEN GetPerson(S, id, fault) ELSE GetRelationship(S, id, fault)
ServiceUpdate(kind, S, id, req, t, faultGet, faultUpdate) ==
    IF kind = PersonsColl THEN UpdatePerson(S, id, req, t, faultGet, faultUpdate)
    ELSE UpdateRelationship(S, id, req, t, faultGet, faultUpdate)
ServiceDelete(kind, S, id, fault) ==
    IF kind = PersonsColl THEN DeletePerson(S, id, fault)
    ELSE DeleteRelationship(S, id, fault)
ServiceCreate(kind, S, req, t, fault) ==
    IF kind = PersonsColl THEN CreatePerson(S, req, t, fault)
    ELSE CreateRelationship(S, req, t, fault)
ServiceList(kind, S, fault, readFault) ==
    IF kind = PersonsColl THEN ListPersons(S, fault, readFault)
    ELSE ListRelationships(S, fault, readFault)

\* a handler that answers 404 to every error of the service
ErrorStatus_AlwaysNotFound(err) == StatusNotFound

\* the status GetPerson, UpdatePerson and DeletePerson (and the three of
\* the relationships handler) answer an error of the service with
ErrorStatus(err) ==
    IF ContainsNotFound(err) THEN StatusNotFound ELSE StatusInternalServerError

\* h.service.<Method>(ctx, ...): the call a handler makes, on the store
Invoke(route, S, t, fault, fault2) ==
    CASE route.call = "Get" -> ServiceGet(route.kind, S, route.id, fault)
      [] route.call = "Update" ->
            ServiceUpdate(route.kind, S, route.id, route.body[1], t, fault, fault2)
      [] route.call = "Delete" -> ServiceDelete(route.kind, S, route.id, fault)
      [] route.call = "Create" -> ServiceCreate(route.kind, S, route.body[1], t, fault)
      [] route.call = "List" ->
            [err |-> ServiceList(route.kind, S, fault, fault2).err, S |-> S, ticks |-> 0]
      [] OTHER -> [err |-> NoErr, S |-> S, ticks |-> 0]

\* the status a handler writes once its service has returned err
AnswerStatus(route, err) ==
    CASE route.call \in {"Get", "Update", "Delete"} ->
            IF err # NoErr THEN ErrorStatus(err) ELSE StatusOK
      [] route.call = "Create" ->
            IF err # NoErr THEN StatusBadRequest ELSE StatusCreated
      [] route.call = "List" ->
            IF err # NoErr THEN StatusInternalServerError ELSE StatusOK
      [] OTHER -> route.status

\* the server before Start
NoHttp == [started |-> FALSE, rateLimiter |-> FALSE, served |-> 0, exchange |-> <<>>]

SideIdle == options = NoOptions /\ hook = NoHook /\ updates = NoUpdates
            /\ http = NoHttp

--------------------------------------------------------------------------
\* Operations on the running service

\* the bookkeeping common to every operation: r is its result
Record(op, kind, id, req, r, entities) ==
    /\ store' = r.S
    /\ now' = now + r.ticks
    /\ lastOp' = [op |-> op, kind |-> kind, id |-> id, req |-> req, fn |-> r.fn,
                  arg |-> r.arg, entity |-> r.entity, err |-> r.err, ptr |-> r.ptr,
                  entities |-> entities, calls |-> r.calls]
    /\ UNCHANGED <<focus, bootVars, sideVars>>

\* the result of a List, as an operation's result
ListResult(r) ==
    [err |-> r.err, ptr |-> NilPtr, S |-> store, calls |-> r.calls, ticks |-> 0,
     fn |-> "List", arg |-> NilPtr, entity |-> NilPtr]

CallCreatePerson ==
    /\ PersonsColl \in focus
    /\ now <= MaxTime
    /\ \E req \in PersonCreateRequests, fault \in ConnectionFaults :
          Record("CreatePerson", PersonsColl, EmptyStr, req,
                 CreatePerson(store, req, now, fault), NilSlice)
    /\ UNCHANGED held

CallGetPerson ==
    /\ PersonsColl \in focus
    /\ \E id \in Ids(store) \cup {EmptyStr}, fault \in ConnectionFaults :
          Record("GetPerson", PersonsColl, id, <<>>,
                 GetPerson(store, id, fault), NilSlice)
    /\ UNCHANGED held

CallUpdatePerson ==
    /\ PersonsColl \in focus
    /\ now <= MaxTime
    /\ \E id \in Ids(store) \cup {EmptyStr}, req \in PersonUpdateRequests,
          at \in FaultAt, cause \in {StoreUnavailable} :
          Record("UpdatePerson", PersonsColl, id, req,
                 UpdatePerson(store, id, req, now, FaultOf(at, "get", cause),
                              FaultOf(at, "update", cause)),
                 NilSlice)
    /\ UNCHANGED held

CallDeletePerson ==
    /\ PersonsColl \in focus
    /\ \E id \in Ids(store) \cup {EmptyStr}, fault \in ConnectionFaults :
          Record("DeletePerson", PersonsColl, id, <<>>,
                 DeletePerson(store, id, fault), NilSlice)
    /\ UNCHANGED held

CallListPersons ==
    /\ PersonsColl \in focus
    /\ \E fault \in ConnectionFaults, readFault \in ConnectionFaults :
          LET r == ListPersons(store, fault, readFault)
          IN Record("ListPersons", PersonsColl, EmptyStr, <<>>,
                    ListResult(r), r.entities)
    /\ UNCHANGED held

CallCreateRelationship ==
    /\ RelationshipsColl \in focus
    /\ now <= MaxTime
    /\ \E req \in RelationshipCreateRequests, fault \in ConnectionFaults :
          Record("CreateRelationship", RelationshipsColl, EmptyStr, req,
                 CreateRelationship(store, req, now, fault), NilSlice)
    /\ UNCHANGED held

CallGetRelationship ==
    /\ RelationshipsColl \in focus
    /\ \E id \in Ids(store) \cup {EmptyStr}, fault \in ConnectionFaults :
          Record("GetRelationship", RelationshipsColl, id, <<>>,
                 GetRelationship(store, id, fault), NilSlice)
    /\ UNCHANGED held

CallUpdateRelationship ==
    /\ RelationshipsColl \in focus
    /\ now <= MaxTime
    /\ \E id \in Ids(store) \cup {EmptyStr}, req \in RelationshipUpdateRequests,
          at \in FaultAt, cause \in {StoreUnavailable} :
          Record("UpdateRelationship", RelationshipsColl, id, req,
                 UpdateRelationship(store, id, req, now, FaultOf(at, "get", cause),
                              FaultOf(at, "update", cause)),
                 NilSlice)
    /\ UNCHANGED held

CallDeleteRelationship ==
    /\ RelationshipsColl \in focus
    /\ \E id \in Ids(store) \cup {EmptyStr}, fault \in ConnectionFaults :
          Record("DeleteRelationship", RelationshipsColl, id, <<>>,
                 DeleteRelationship(store, id, fault), NilSlice)
    /\ UNCHANGED held

CallListRelationships ==
    /\ RelationshipsColl \in focus
    /\ \E fault \in ConnectionFaults, readFault \in ConnectionFaults :
          LET r == ListRelationships(store, fault, readFault)
          IN Record("ListRelationships", RelationshipsColl, EmptyStr, <<>>,
                    ListResult(r), r.entities)
    /\ UNCHANGED held

\* the result of a finder, as an operation's result; a finder called on the
\* repository itself is handed args
FindResult(r, fn, args) ==
    [err |-> r.err, ptr |-> NilPtr, S |-> store, calls |-> r.calls, ticks |-> 0,
     fn |-> fn, arg |-> args, entity |-> NilPtr]

CallSearchPersonsByName ==
    /\ PersonsColl \in focus
    /\ \E firstName \in {<<SP>>, <<"Ada", SP>>}, lastName \in SearchLastNames,
          fault \in ConnectionFaults :
          LET r == SearchPersonsByName(store, firstName, lastName, fault, StoreOK)
          IN Record("SearchPersonsByName", PersonsColl, EmptyStr,
                    [FirstName |-> firstName, LastName |-> lastName],
                    FindResult(r, r.fn, r.arg), r.entities)
    /\ UNCHANGED held

CallGetRelationshipsForPerson ==
    /\ RelationshipsColl \in focus
    /\ \E personID \in {EmptyStr, PersonA}, fault \in ConnectionFaults :
          LET r == GetRelationshipsForPerson(store, personID, fault, StoreOK)
          IN Record("GetRelationshipsForPerson", RelationshipsColl, EmptyStr,
                    [PersonID |-> personID], FindResult(r, r.fn, r.arg), r.entities)
    /\ UNCHANGED held

CallGetRelationshipsByType ==
    /\ RelationshipsColl \in focus
    /\ \E relationType \in {EmptyStr, RelationTypeSibling},
          fault \in ConnectionFaults :
          LET r == GetRelationshipsByType(store, relationType, fault, StoreOK)
          IN Record("GetRelationshipsByType", RelationshipsColl, EmptyStr,
                    [RelationType |-> relationType], FindResult(r, r.fn, r.arg),
                    r.entities)
    /\ UNCHANGED held

RepoFindByName ==
    /\ PersonsColl \in focus
    /\ \E firstName \in SearchFirstNames, lastName \in SearchLastNames,
          readFault \in ConnectionFaults :
          LET r == FindByName(store, firstName, lastName, StoreOK, readFault)
          IN Record("FindByName", PersonsColl, EmptyStr, <<>>,
                    FindResult(r, "FindByName",
                               PtrTo([FirstName |-> firstName, LastName |-> lastName])),
                    r.entities)
    /\ UNCHANGED held

RepoFindByPerson ==
    /\ RelationshipsColl \in focus
    /\ \E personID \in SearchPersonIDs,
          readFault \in ConnectionFaults :
          LET r == FindByPerson(store, personID, StoreOK, readFault)
          IN Record("FindByPerson", RelationshipsColl, EmptyStr, <<>>,
                    FindResult(r, "FindByPerson", PtrTo([PersonID |-> personID])),
                    r.entities)
    /\ UNCHANGED held

RepoFindByType ==
    /\ RelationshipsColl \in focus
    /\ \E relationType \in SearchTypes,
          readFault \in ConnectionFaults :
          LET r == FindByType(store, relationType, StoreOK, readFault)
          IN Record("FindByType", RelationshipsColl, EmptyStr, <<>>,
                    FindResult(r, "FindByType", PtrTo([RelationType |-> relationType])),
                    r.entities)
    /\ UNCHANGED held

\* a caller of the repository itself: it builds an entity, or keeps the one
\* its last call left it, and hands it to Create or Update

NewEntity ==
    /\ \E kind \in focus : \E e \in NewEntities(kind) :
          /\ held # <<[kind |-> kind, entity |-> e]>>
          /\ held' = <<[kind |-> kind, entity |-> e]>>
    /\ UNCHANGED <<focus, now, store, lastOp, bootVars, sideVars>>

RepoCreate ==
    /\ now <= MaxTime
    /\ held # NoHeld
    /\ \E fault \in Faults :
          LET kind == held[1].kind
              r == Create(kind, store, held[1].entity, now, fault)
          IN /\ Record("Create", kind, EmptyStr, <<>>,
                       [err |-> r.err, ptr |-> NilPtr, S |-> r.S, calls |-> r.calls,
                        ticks |-> 1, fn |-> "Create",
                        arg |-> PtrTo(held[1].entity), entity |-> PtrTo(r.entity)],
                       NilSlice)
             /\ held' = <<[kind |-> kind, entity |-> r.entity]>>

RepoGetByID ==
    \E kind \in focus, id \in Ids(store), fault \in Faults :
        LET r == GetByID(kind, store, id, fault)
        IN /\ Record("GetByID", kind, id, <<>>,
                     [err |-> r.err, ptr |-> r.ptr, S |-> store, calls |-> r.calls,
                      ticks |-> 0, fn |-> "GetByID", arg |-> NilPtr,
                      entity |-> r.ptr],
                     NilSlice)
           /\ held' = IF r.ptr = NilPtr THEN held
                      ELSE <<[kind |-> kind, entity |-> r.ptr[1]]>>

RepoUpdate ==
    /\ now <= MaxTime
    /\ held # NoHeld
    /\ \E id \in Ids(store), fault \in Faults :
          LET kind == held[1].kind
              r == Update(kind, store, id, held[1].entity, now, fault)
          IN /\ Record("Update", kind, id, <<>>,
                       [err |-> r.err, ptr |-> NilPtr, S |-> r.S, calls |-> r.calls,
                        ticks |-> 1, fn |-> "Update",
                        arg |-> PtrTo(held[1].entity), entity |-> PtrTo(r.entity)],
                       NilSlice)
             /\ held' = <<[kind |-> kind, entity |-> r.entity]>>

RepoDelete ==
    /\ \E kind \in focus, id \in Ids(store), fault \in Faults :
          LET r == Delete(kind, store, id, fault)
          IN Record("Delete", kind, id, <<>>,
                    [err |-> r.err, ptr |-> NilPtr, S |-> r.S, calls |-> r.calls,
                     ticks |-> 0, fn |-> "Delete", arg |-> NilPtr, entity |-> NilPtr],
                    NilSlice)
    /\ UNCHANGED held

RepoList ==
    /\ \E kind \in focus, fault \in Faults, readFault \in Faults :
          LET r == List(kind, store, fault, readFault)
          IN Record("List", kind, EmptyStr, <<>>, ListResult(r), r.entities)
    /\ UNCHANGED held

--------------------------------------------------------------------------
\* The service after clients.Init: both collections exist and are empty

InitCrud ==
    /\ focus \in {{kind} : kind \in Kinds}
    /\ now = 1
    /\ store = [docs |-> [k \in Kinds |-> <<>>], keySeq |-> 0, revSeq |-> 0]
    /\ held = NoHeld
    /\ lastOp = NoOp

InitBootIdle ==
    /\ pc = [i \in Instances |-> "ready"]
    /\ catalog = [database |-> TRUE,
                  collections |-> [kind \in Kinds |->
                                     IF kind = RelationshipsColl THEN "edge"
                                     ELSE "document"]]
    /\ bootErr = [i \in Instances |-> NoErr]
    /\ globals = [i \in Instances |-> AllGlobals]
    /\ SideIdle

Init == InitCrud /\ InitBootIdle

ServiceNext ==
    \/ CallCreatePerson
    \/ CallGetPerson
    \/ CallUpdatePerson
    \/ CallDeletePerson
    \/ CallListPersons
    \/ CallCreateRelationship
    \/ CallGetRelationship
    \/ CallUpdateRelationship
    \/ CallDeleteRelationship
    \/ CallListRelationships

RepoNext ==
    \/ NewEntity
    \/ RepoCreate
    \/ RepoGetByID
    \/ RepoUpdate
    \/ RepoDelete
    \/ RepoList

\* the services alone
SpecService == Init /\ [][ServiceNext]_vars

\* callers of the repository alone
SpecRepo == Init /\ [][RepoNext]_vars

\* the services and other callers of the repository
Next ==
    \/ ServiceNext
    \/ RepoNext

Spec == Init /\ [][Next]_vars

\* the finders over a collection the services fill and empty
FindNext ==
    \/ CallCreatePerson
    \/ CallDeletePerson
    \/ CallCreateRelationship
    \/ CallDeleteRelationship
    \/ CallSearchPersonsByName
    \/ CallGetRelationshipsForPerson
    \/ CallGetRelationshipsByType
    \/ RepoFindByName
    \/ RepoFindByPerson
    \/ RepoFindByType

SpecFind == Init /\ [][FindNext]_vars

\* the family graph: persons and the relationships between them are
\* created and deleted in one run
InitGraph ==
    /\ focus = Kinds
    /\ now = 1
    /\ store = [docs |-> [k \in Kinds |-> <<>>], keySeq |-> 0, revSeq |-> 0]
    /\ held = NoHeld
    /\ lastOp = NoOp
    /\ InitBootIdle

GraphNext ==
    \/ CallCreatePerson
    \/ CallDeletePerson
    \/ CallCreateRelationship
    \/ RepoFindByPerson

SpecGraph == InitGraph /\ [][GraphNext]_vars

--------------------------------------------------------------------------
\* NewClient (pkg/clients/arangodbclient), run by several process instances
\* against one store.  catalog.database: the target database exists;
\* catalog.collections: its collections and their types.  Every store call
\* is a step of its own: other instances run between the existence check
\* and the create request.

DocumentType == "document"
EdgeType == "edge"

\* the step after the collection `name` is there
AfterCollection(name) ==
    IF name = PersonsColl THEN "existsRelationships" ELSE "done"

\* NewClient returns the error of the step that failed, wrapped
Fail(i, chain) ==
    /\ pc' = [pc EXCEPT ![i] = "failed"]
    /\ bootErr' = [bootErr EXCEPT ![i] = chain]
    /\ UNCHANGED catalog

\* ensureDatabase: client.GetDatabase
GetDatabase(i) ==
    /\ pc[i] = "getDatabase"
    /\ \E fault \in BOOLEAN :
          IF fault
          THEN Fail(i, Errorf("failed to ensure database",
                         Errorf("failed to get database", StoreError(StoreUnavailable))))
          ELSE /\ pc' = [pc EXCEPT ![i] = IF catalog.database THEN "existsPersons"
                                          ELSE "createDatabase"]
               /\ UNCHANGED <<catalog, bootErr>>
    /\ UNCHANGED <<crudVars, globals, sideVars>>

\* ensureDatabase: client.CreateDatabase, after GetDatabase answered not found
CreateDatabase(i) ==
    /\ pc[i] = "createDatabase"
    /\ \E fault \in BOOLEAN :
          IF fault \/ catalog.database
          THEN Fail(i, Errorf("failed to ensure database",
                         Errorf("failed to create database",
                                StoreError(IF fault THEN StoreUnavailable
                                           ELSE StoreDuplicateName))))
          ELSE /\ catalog' = [catalog EXCEPT !.database = TRUE]
               /\ pc' = [pc EXCEPT ![i] = "existsPersons"]
               /\ UNCHANGED bootErr
    /\ UNCHANGED <<crudVars, globals, sideVars>>

\* what initializeCollections puts in front of ensureCollection's error
InitializeError(name, chain) ==
    Errorf("failed to initialize collections",
           Errorf(IF name = PersonsColl THEN "failed to create persons collection"
                  ELSE "failed to create relationships collection", chain))

\* an ensureCollection that does not look and always creates
CollectionExists_AlwaysCreate(i, name) ==
    /\ pc[i] = (IF name = PersonsColl THEN "existsPersons" ELSE "existsRelationships")
    /\ pc' = [pc EXCEPT ![i] = IF name = PersonsColl THEN "createPersons"
                                 ELSE "createRelationships"]
    /\ UNCHANGED <<catalog, bootErr>>
    /\ UNCHANGED <<crudVars, globals, sideVars>>

\* ensureCollection: c.db.CollectionExists
CollectionExists(i, name) ==
    /\ pc[i] = (IF name = PersonsColl THEN "existsPersons" ELSE "existsRelationships")
    /\ \E fault \in BOOLEAN :
          IF fault
          THEN Fail(i, InitializeError(name,
                         Errorf("failed to check collection existence",
                                StoreError(StoreUnavailable))))
          ELSE /\ pc' = [pc EXCEPT ![i] =
                            IF name \in DOMAIN catalog.collections
                            THEN AfterCollection(name)
                            ELSE IF name = PersonsColl THEN "createPersons"
                                 ELSE "createRelationships"]
               /\ UNCHANGED <<catalog, bootErr>>
    /\ UNCHANGED <<crudVars, globals, sideVars>>

\* ensureCollection: c.db.CreateCollectionV2, after CollectionExists
\* answered false
CreateCollection(i, name, isEdge) ==
    /\ pc[i] = (IF name = PersonsColl THEN "createPersons" ELSE "createRelationships")
    /\ \E fault \in BOOLEAN :
          IF fault \/ name \in DOMAIN catalog.collections
          THEN Fail(i, InitializeError(name,
                         Errorf("failed to create collection",
                                StoreError(IF fault THEN StoreUnavailable
                                           ELSE StoreDuplicateName))))
          ELSE /\ catalog' =
                     [catalog EXCEPT !.collections =
                         [n \in DOMAIN catalog.collections \cup {name} |->
                             IF n = name
                             THEN (IF isEdge THEN EdgeType ELSE DocumentType)
                             ELSE catalog.collections[n]]]
               /\ pc' = [pc EXCEPT ![i] = AfterCollection(name)]
               /\ UNCHANGED bootErr
    /\ UNCHANGED <<crudVars, globals, sideVars>>

\* initializeCollections: persons is a document collection, relationships
\* an edge collection
NewClientStep(i) ==
    \/ GetDatabase(i)
    \/ CreateDatabase(i)
    \/ CollectionExists(i, PersonsColl)
    \/ CreateCollection(i, PersonsColl, FALSE)
    \/ CollectionExists(i, RelationshipsColl)
    \/ CreateCollection(i, RelationshipsColl, TRUE)

BootNext == \E i \in Instances : NewClientStep(i)

\* the store before any instance has started: no database, or the database
\* with any of the two collections, of either type
InitBoot ==
    /\ InitCrud
    /\ focus = {PersonsColl}
    /\ pc = [i \in Instances |-> "getDatabase"]
    /\ bootErr = [i \in Instances |-> NoErr]
    /\ globals = [i \in Instances |-> NoGlobals]
    /\ SideIdle
    /\ \E db \in BOOLEAN :
          \E names \in SUBSET Kinds :
             \E types \in [names -> {DocumentType, EdgeType}] :
                /\ (~db => names = {})
                /\ catalog = [database |-> db, collections |-> types]

\* the instances starting together
SpecBoot == InitBoot /\ [][BootNext]_vars

--------------------------------------------------------------------------
\* clients.Init (internal/clients), in each instance: NewClient as above,
\* then Ping, the two GetCollection calls, and the services.  pc[i] goes on
\* from "done" (NewClient returned a client) or "failed" (it returned an
\* error); bootErr[i] becomes the error Init returns.

\* Init returns err: the globals stay as they are
InitFail(i, chain) ==
    /\ pc' = [pc EXCEPT ![i] = "initFailed"]
    /\ bootErr' = [bootErr EXCEPT ![i] = chain]
    /\ UNCHANGED <<catalog, globals>>

\* NewClient returned an error
NewClientFailed(i) ==
    /\ pc[i] = "failed"
    /\ InitFail(i, Errorf("failed to initialize ArangoDB client", bootErr[i]))
    /\ UNCHANGED <<crudVars, sideVars>>

\* a Ping that sets the service globals before it asks the store
Ping_PublishFirst(i) ==
    /\ pc[i] = "done"
    /\ \E fault \in BOOLEAN :
          /\ pc' = [pc EXCEPT ![i] = IF fault THEN "initFailed" ELSE "getPersons"]
          /\ bootErr' = [bootErr EXCEPT ![i] =
                            IF fault
                            THEN Errorf("failed to ping ArangoDB",
                                        Errorf("ping failed", StoreError(StoreUnavailable)))
                            ELSE @]
          /\ globals' = [globals EXCEPT ![i] = AllGlobals]
          /\ UNCHANGED catalog
    /\ UNCHANGED <<crudVars, sideVars>>

\* client.Ping (c.conn.Version), then ArangoClient = client
Ping(i) ==
    /\ pc[i] = "done"
    /\ \E fault \in BOOLEAN :
          IF fault
          THEN InitFail(i, Errorf("failed to ping ArangoDB",
                             Errorf("ping failed", StoreError(StoreUnavailable))))
          ELSE /\ pc' = [pc EXCEPT ![i] = "getPersons"]
               /\ globals' = [globals EXCEPT ![i].ArangoClient = TRUE]
               /\ UNCHANGED <<catalog, bootErr>>
    /\ UNCHANGED <<crudVars, sideVars>>

\* client.GetCollection(ctx, name): c.db.GetCollection
GetCollection(i, name) ==
    /\ pc[i] = (IF name = PersonsColl THEN "getPersons" ELSE "getRelationships")
    /\ \E fault \in BOOLEAN :
          IF fault \/ name \notin DOMAIN catalog.collections
          THEN InitFail(i, Errorf(IF name = PersonsColl
                                  THEN "failed to get persons collection"
                                  ELSE "failed to get relationships collection",
                                  StoreError(IF fault THEN StoreUnavailable
                                             ELSE StoreNotFound)))
          ELSE /\ pc' = [pc EXCEPT ![i] = IF name = PersonsColl
                                          THEN "getRelationships" ELSE "services"]
               /\ UNCHANGED <<catalog, bootErr, globals>>
    /\ UNCHANGED <<crudVars, sideVars>>

\* the repositories and the services are built and the service globals set;
\* Init returns nil
PublishServices(i) ==
    /\ pc[i] = "services"
    /\ pc' = [pc EXCEPT ![i] = "ready"]
    /\ globals' = [globals EXCEPT ![i].PersonService = TRUE,
                                   ![i].RelationshipService = TRUE]
    /\ UNCHANGED <<catalog, bootErr>>
    /\ UNCHANGED <<crudVars, sideVars>>

InitStep(i) ==
    \/ NewClientStep(i)
    \/ NewClientFailed(i)
    \/ Ping(i)
    \/ GetCollection(i, PersonsColl)
    \/ GetCollection(i, RelationshipsColl)
    \/ PublishServices(i)

InitNext == \E i \in Instances : InitStep(i)

\* the instances starting together, each running clients.Init
SpecInit == InitBoot /\ [][InitNext]_vars

--------------------------------------------------------------------------
\* ApplyOptions(DefaultOptions(), f1..fn), one option function at a time.
\* options.calls: how f1..fn were built; options.done: how many of them the
\* loop has called; options.opts: the Options they work on;
\* options.result: what ApplyOptions returned, once it has.

\* a caller builds one more option function for the call
AddOption ==
    /\ options.done = 0
    /\ options.result = <<>>
    /\ Len(options.calls) < MaxOptions
    /\ \E call \in OptionCalls :
          options' = [options EXCEPT !.calls = Append(@, call)]
    /\ UNCHANGED <<crudVars, bootVars, hook, updates, http>>

\* one turn of the loop: fn(opts)
ApplyOption ==
    /\ options.done < Len(options.calls)
    /\ options' = [options EXCEPT
                      !.opts = CallOption(OptionFunc(options.calls[options.done + 1]), @),
                      !.done = @ + 1]
    /\ UNCHANGED <<crudVars, bootVars, hook, updates, http>>

\* the loop is over: return opts
ReturnOptions ==
    /\ options.done = Len(options.calls)
    /\ options.result = <<>>
    /\ options' = [options EXCEPT
                      !.result = <<ApplyOptions(DefaultOptions,
                                                [i \in 1..Len(options.calls) |->
                                                    OptionFunc(options.calls[i])])>>]
    /\ UNCHANGED <<crudVars, bootVars, hook, updates, http>>

OptionsNext ==
    \/ AddOption
    \/ ApplyOption
    \/ ReturnOptions

SpecOptions == Init /\ [][OptionsNext]_vars

--------------------------------------------------------------------------
\* useApiData as it runs: the mount, the calls of fetchData and the
\* promises of fetchFn settling, in any order.

\* the first render of a component that calls useApiData(props)
Mount ==
    /\ ~hook.mounted
    /\ \E props \in HookProps : hook' = UseState(props)
    /\ UNCHANGED <<crudVars, bootVars, options, updates, http>>

\* fetchData(): by the effect after the mount, later by refetch
FetchData ==
    /\ hook.mounted
    /\ Len(hook.fetches) < MaxFetches
    /\ hook' = FetchBegin(hook)
    /\ UNCHANGED <<crudVars, bootVars, options, updates, http>>

\* the promise of fetch n settles and fetchData runs on to its end
Settle ==
    /\ hook.mounted
    /\ \E n \in DOMAIN hook.fetches, outcome \in Outcomes :
          /\ hook.fetches[n] = "pending"
          /\ hook' = FetchSettle(hook, n, outcome)
    /\ UNCHANGED <<crudVars, bootVars, options, updates, http>>

HookNext ==
    \/ Mount
    \/ FetchData
    \/ Settle

SpecHook == Init /\ [][HookNext]_vars

--------------------------------------------------------------------------

\* Two callers updating an entity, with deletes running beside them.

\* caller c calls UpdatePerson / UpdateRelationship, which runs up to the
\* return of GetByID and the assignments
BeginUpdate(c) ==
    /\ updates[c].pc = "idle"
    /\ \E kind \in focus :
       \E id \in Ids(store) \cup {EmptyStr}, req \in ConcurrentRequests(kind),
          fault \in ConnectionFaults :
          LET r == UpdateFetch(kind, store, id, req, fault)
          IN updates' = [updates EXCEPT ![c] =
                            [pc |-> IF r.err = NoErr THEN "fetched" ELSE "done",
                             kind |-> kind, id |-> id, req |-> req,
                             entity |-> r.entity, err |-> r.err, ptr |-> NilPtr]]
    /\ UNCHANGED <<crudVars, bootVars, options, hook, http>>

\* the call of caller c runs on: repo.Update and the return
FinishUpdate(c) ==
    /\ updates[c].pc = "fetched"
    /\ now <= MaxTime
    /\ \E fault \in ConnectionFaults :
          LET u == updates[c]
              r == UpdateWrite(u.kind, store, u.id, u.entity[1], now, fault)
          IN /\ store' = r.S
             /\ updates' = [updates EXCEPT ![c].pc = "done", ![c].err = r.err,
                                           ![c].ptr = r.ptr]
    /\ now' = now + 1
    /\ UNCHANGED <<focus, held, lastOp, bootVars, options, hook, http>>

\* one entity has been created, by CreatePerson or CreateRelationship at
\* the first clock reading, and no update call has begun
InitConcurrent ==
    /\ \E kind \in Kinds :
          LET S0 == [docs |-> [k \in Kinds |-> <<>>], keySeq |-> 0, revSeq |-> 0]
          IN /\ focus = {kind}
             /\ store = IF kind = PersonsColl
                        THEN CreatePerson(S0, BasePersonCreate, 1, StoreOK).S
                        ELSE CreateRelationship(S0, BaseRelationshipCreate, 1, StoreOK).S
    /\ now = 2
    /\ held = NoHeld
    /\ lastOp = NoOp
    /\ InitBootIdle

ConcurrentNext ==
    \/ CallDeletePerson
    \/ CallDeleteRelationship
    \/ \E c \in Callers : BeginUpdate(c)
    \/ \E c \in Callers : FinishUpdate(c)

SpecConcurrent == InitConcurrent /\ [][ConcurrentNext]_vars

--------------------------------------------------------------------------

\* The HTTP API server running: main starts it once, then it serves
\* requests one after the other.

\* Most requests the server is sent.
MaxRequests == 2

Methods == {"GET", "POST", "PUT", "DELETE", "PATCH", "OPTIONS"}

\* the paths asked for: the routes of a kind without and with an id, and
\* paths beside them
Paths(kinds) ==
    UNION {{RoutePath(kind), RoutePrefix(kind),
            RoutePrefix(kind) \o <<"1">>, RoutePrefix(kind) \o <<"2">>} : kind \in kinds}
    \cup {<<"/", "v1", "/", "export">>, <<"/", "swagger", "/">>, <<"/", "health">>}

\* the bodies sent with POST and PUT: one that does not decode, and a
\* request
Bodies(method, path) ==
    IF method \notin {"POST", "PUT"} THEN {<<>>}
    ELSE IF HasPrefix(path, RoutePath(PersonsColl))
         THEN {<<>>, <<[BasePersonCreate EXCEPT !.FirstName = Charles]>>}
    ELSE IF HasPrefix(path, RoutePath(RelationshipsColl))
         THEN {<<>>, <<[BaseRelationshipCreate EXCEPT !.RelationType = RelationTypeSpouse]>>}
    ELSE {<<>>}

\* what the requester and the store bring to a request: whether the
\* credentials are good, and what the store answers to the request's first
\* and second call when they do not go through (a path that is no key can
\* also be told so)
Circumstances(method, path) ==
    {[authenticated |-> FALSE, fault |-> StoreOK, fault2 |-> StoreOK]} \cup
    [authenticated : {TRUE},
     fault : ConnectionFaults \cup
                (IF \E kind \in Kinds : path = RoutePath(kind) /\ method \in {"PUT", "DELETE"}
                 THEN {StoreBadKey} ELSE {}),
     fault2 : IF method \in {"GET", "PUT"} THEN ConnectionFaults ELSE {StoreOK}]

\* main: the rate limiter is built when RATE_LIMIT_ENABLED is set (the
\* default), then httpserver.New(address, rateLimiter) and Start
StartServer ==
    /\ ~http.started
    /\ \E enabled \in BOOLEAN :
          http' = [http EXCEPT !.started = TRUE, !.rateLimiter = enabled]
    /\ UNCHANGED <<crudVars, bootVars, options, hook, updates>>

\* the server takes a request through its handler chain
Serve ==
    /\ http.started
    /\ http.served < MaxRequests
    /\ \E method \in Methods, path \in Paths(focus) :
       \E body \in Bodies(method, path), in \in Circumstances(method, path) :
          LET req == [method |-> method, path |-> path, body |-> body]
          IN \E route \in {ServeHTTP(http.rateLimiter, req, in.authenticated)} :
             \E r \in {Invoke(route, store, now, in.fault, in.fault2)} :
                /\ now + r.ticks <= MaxTime + 1
                /\ store' = r.S
                /\ now' = now + r.ticks
                /\ http' = [http EXCEPT
                               !.served = @ + 1,
                               !.exchange =
                                   <<[req |-> req, status |-> AnswerStatus(route, r.err),
                                      trail |-> route.trail, err |-> r.err]>>]
    /\ UNCHANGED <<focus, held, lastOp, bootVars, options, hook, updates>>

HttpNext ==
    \/ StartServer
    \/ Serve

\* one entity has been created before the server starts
SpecHttp == InitConcurrent /\ [][HttpNext]_vars

--------------------------------------------------------------------------

\* Properties

\* the not-found error of the repository: "entity not found" around the
\* store's not-found answer
IsNotFoundError(err) ==
    err # NoErr /\ err[Len(err)] = StoreNotFound /\ Contains(err, "entity not found")

Docs(kind) == store.docs[kind]

\* the data fields of two entities of a kind agree
SameData(kind, a, b) == \A f \in DataFields(kind) : a[f] = b[f]

\* C1: when the store write issued by Create or Update fails, the operation
\* returns an error and the caller's entity (identity, createdAt, updatedAt
\* and data fields) is exactly as it was before the call.
C1_FailedWriteLeavesEntity ==
    (lastOp.fn \in {"Create", "Update"} /\ lastOp.err # NoErr)
        => lastOp.entity = lastOp.arg

\* C2: Create followed by GetByID on the key Create returned yields the data
\* fields passed to Create, the store's key, id and revision, and createdAt
\* equal to updatedAt.
C2_CreateThenGetByID ==
    (lastOp.fn = "Create" /\ lastOp.err = NoErr)
        => LET kind == lastOp.kind
               key == lastOp.entity[1].Key
               g == GetByID(kind, store, key, StoreOK)
           IN /\ g.err = NoErr
              /\ g.ptr # NilPtr
              /\ SameData(kind, g.ptr[1], lastOp.arg[1])
              /\ key # EmptyStr
              /\ g.ptr[1].Key = Docs(kind)[key].Key
              /\ g.ptr[1].ID = Docs(kind)[key].ID
              /\ g.ptr[1].Rev = Docs(kind)[key].Rev
              /\ g.ptr[1].ID # EmptyStr
              /\ g.ptr[1].Rev # EmptyStr
              /\ g.ptr[1].CreatedAt = g.ptr[1].UpdatedAt

\* C3: a stored document's createdAt is the one written when it was first
\* persisted, whatever Create and Update calls follow, and every successful
\* write to a document advances its updatedAt.
C3_CreatedAtOnceUpdatedAtAdvances ==
    [][\A kind \in Kinds :
          \A key \in DOMAIN store.docs[kind] \cap DOMAIN store'.docs[kind] :
             LET old == store.docs[kind][key]
                 new == store'.docs[kind][key]
             IN /\ new.CreatedAt = old.CreatedAt
                /\ new # old => new.UpdatedAt > old.UpdatedAt]_vars

\* C4: a successful Update of an entity with a non-zero createdAt leaves the
\* entity's createdAt as it was and sets its updatedAt strictly later than
\* it was before the call.
C4_UpdateKeepsCreatedAt ==
    (lastOp.fn = "Update" /\ lastOp.err = NoErr /\ lastOp.arg[1].CreatedAt # 0)
        => /\ lastOp.entity[1].CreatedAt = lastOp.arg[1].CreatedAt
           /\ lastOp.entity[1].UpdatedAt > lastOp.arg[1].UpdatedAt

\* a successful Update of an entity that was updated before, so that its
\* createdAt and updatedAt differ
C4_Witness ==
    /\ lastOp.fn = "Update"
    /\ lastOp.err = NoErr
    /\ lastOp.arg[1].CreatedAt # 0
    /\ lastOp.arg[1].CreatedAt # lastOp.arg[1].UpdatedAt

\* C5: once Delete(id) has succeeded, a GetByID(id) that follows returns no
\* entity, and the not-found error whenever the store answers the read.
C5_DeleteThenGetByID ==
    (lastOp.fn = "Delete" /\ lastOp.err = NoErr)
        => \A fault \in Faults :
              LET g == GetByID(lastOp.kind, store, lastOp.id, fault)
              IN /\ g.ptr = NilPtr
                 /\ g.err # NoErr
                 /\ fault = StoreOK => IsNotFoundError(g.err)

\* a Delete has succeeded on a collection that keeps another document
C5_Witness ==
    /\ lastOp.fn = "Delete"
    /\ lastOp.err = NoErr
    /\ DOMAIN Docs(lastOp.kind) # {}

\* C6: no instance's NewClient returns an error only because another
\* instance created the database or a collection between its existence
\* check and its create request.
C6_NoErrorFromRace ==
    \A i \in Instances :
        bootErr[i] # NoErr => bootErr[i][Len(bootErr[i])] # StoreDuplicateName

\* C7: List on an empty collection returns no error and an empty, non-nil
\* sequence (here: whenever the store answers the query).
C7_ListEmptyNotNil ==
    (lastOp.fn = "List" /\ DOMAIN Docs(lastOp.kind) = {} /\ lastOp.err = NoErr)
        => /\ lastOp.entities.elems = <<>>
           /\ ~lastOp.entities.isNil

\* an email that is not local@domain with a dot in the domain
Malformed(email) ==
    /\ email # EmptyStr
    /\ ~\E i \in 2..(Len(email) - 1) :
           /\ email[i] = "@"
           /\ \A j \in 1..Len(email) : email[j] = "@" => j = i
           /\ \E j \in (i + 1)..Len(email) : email[j] = "."

InvalidPersonCreate(req) ==
    \/ TrimSpace(req.FirstName) = EmptyStr
    \/ TrimSpace(req.LastName) = EmptyStr
    \/ Malformed(req.Email)

InvalidRelationshipCreate(req) ==
    \/ TrimSpace(req.From) = EmptyStr
    \/ TrimSpace(req.To) = EmptyStr
    \/ TrimSpace(req.RelationType) = EmptyStr
    \/ req.From = req.To
    \/ req.RelationType \notin
           {RelationTypeParent, RelationTypeChild, RelationTypeSpouse,
            RelationTypeSibling}

\* C8: CreatePerson with a first or last name empty after trimming or with a
\* malformed email, and CreateRelationship with an empty from, to or type,
\* with from equal to to or with a type outside the closed set, return an
\* error, issue no store call and leave the store as it was.
C8_InvalidCreateRejected ==
    [][((lastOp'.op = "CreatePerson" /\ InvalidPersonCreate(lastOp'.req))
        \/ (lastOp'.op = "CreateRelationship"
            /\ InvalidRelationshipCreate(lastOp'.req)))
          => (lastOp'.err # NoErr /\ lastOp'.calls = 0 /\ store' = store)]_vars

\* a relationship of a person with itself was refused while the collection
\* holds documents
C8_Witness ==
    /\ lastOp.op = "CreateRelationship"
    /\ lastOp.req.From = lastOp.req.To
    /\ lastOp.err # NoErr
    /\ DOMAIN Docs(RelationshipsColl) # {}

\* C9: every stored Relationship has a non-empty from, a non-empty to, and a
\* from that differs from its to.
C9_EndpointsDiffer ==
    \A key \in DOMAIN Docs(RelationshipsColl) :
        LET rel == Unmarshal(RelationshipsColl, Docs(RelationshipsColl)[key])
        IN rel.From # EmptyStr /\ rel.To # EmptyStr /\ rel.From # rel.To

\* C10: every stored Relationship's relationType is one of parent, child,
\* spouse, sibling.
C10_TypeInClosedSet ==
    \A key \in DOMAIN Docs(RelationshipsColl) :
        Unmarshal(RelationshipsColl, Docs(RelationshipsColl)[key]).RelationType
            \in {RelationTypeParent, RelationTypeChild, RelationTypeSpouse,
                 RelationTypeSibling}

\* C11: every stored Person has a firstName and a lastName that are non-empty
\* after trimming.
C11_NamesNonEmpty ==
    \A key \in DOMAIN Docs(PersonsColl) :
        LET person == Unmarshal(PersonsColl, Docs(PersonsColl)[key])
        IN /\ TrimSpace(person.FirstName) # EmptyStr
           /\ TrimSpace(person.LastName) # EmptyStr

\* the fields of a document an update request leaves alone: every attribute
\* but updatedAt and the revision whose value in the request is empty (zero
\* for a date) or that the request does not carry at all
Untouched(kind, req) ==
    {f \in Fields(kind) \ {"UpdatedAt", "Rev"} :
        f \notin DOMAIN req \/ req[f] = Zero(f)}

\* C12: a successful UpdatePerson or UpdateRelationship changes, in the
\* stored document, only the fields whose value in the request is non-empty,
\* updatedAt and the revision; the fields left empty in the request, the key,
\* the id and createdAt keep their values, and so does every other document.
C12_UpdateFrame ==
    [][(lastOp'.op \in {"UpdatePerson", "UpdateRelationship"}
        /\ lastOp'.err = NoErr)
          => LET kind == lastOp'.kind
                 id == lastOp'.id
                 old == store.docs[kind]
                 new == store'.docs[kind]
             IN /\ DOMAIN new = DOMAIN old
                /\ id \in DOMAIN old
                /\ \A k \in DOMAIN old \ {id} : new[k] = old[k]
                /\ \A f \in Untouched(kind, lastOp'.req) :
                      /\ f \in DOMAIN new[id] <=> f \in DOMAIN old[id]
                      /\ f \in DOMAIN old[id] => new[id][f] = old[id][f]]_vars

\* an UpdatePerson that set the first name and the email of a person who
\* already had an email: the first name is the new one, the rest is as before
C12_Witness ==
    /\ lastOp.op = "UpdatePerson"
    /\ lastOp.err = NoErr
    /\ lastOp.req.FirstName = Charles
    /\ lastOp.id \in DOMAIN Docs(PersonsColl)
    /\ LET doc == Docs(PersonsColl)[lastOp.id]
       IN /\ doc.FirstName = Charles
          /\ doc.LastName = Lovelace
          /\ "Email" \in DOMAIN doc
          /\ doc.CreatedAt < doc.UpdatedAt

\* C13: after a successful Create or Update the entity's key, id and revision
\* are those the store holds for the written document, and after a successful
\* Update the revision differs from the one the document had before.
C13_IdentityRefreshed ==
    [][(lastOp' # lastOp /\ lastOp'.fn \in {"Create", "Update"}
        /\ lastOp'.err = NoErr)
          => LET kind == lastOp'.kind
                 e == lastOp'.entity[1]
                 new == store'.docs[kind]
             IN /\ e.Key \in DOMAIN new
                /\ e.Key = new[e.Key].Key
                /\ e.ID = new[e.Key].ID
                /\ e.Rev = new[e.Key].Rev
                /\ lastOp'.fn = "Update"
                      => /\ e.Key = lastOp'.id
                         /\ e.Key \in DOMAIN store.docs[kind]
                         /\ e.Rev # store.docs[kind][e.Key].Rev]_vars

\* an Update of an entity that carried an earlier revision succeeded
C13_Witness ==
    /\ lastOp.fn = "Update"
    /\ lastOp.err = NoErr
    /\ lastOp.arg[1].Rev # EmptyStr
    /\ lastOp.entity[1].Rev # lastOp.arg[1].Rev
    /\ lastOp.entity[1].Rev = Docs(lastOp.kind)[lastOp.id].Rev

\* what the store answered to the call that failed: the innermost message
StoreAnswer(err) == err[Len(err)]

\* C14: GetByID, Update and Delete return the not-found error exactly when
\* the store reports the addressed document missing, and then leave the store
\* as it was; any other store failure gives an error that is not the
\* not-found error; none of them succeeds on a missing id.
C14_NotFoundDistinguished ==
    [][(lastOp' # lastOp /\ lastOp'.fn \in {"GetByID", "Update", "Delete"})
          => LET err == lastOp'.err
                 missing == lastOp'.id \notin DOMAIN store.docs[lastOp'.kind]
             IN /\ err = NoErr => ~missing
                /\ err # NoErr
                      => /\ IsNotFoundError(err) <=> StoreAnswer(err) = StoreNotFound
                         /\ Contains(err, "entity not found")
                               <=> StoreAnswer(err) = StoreNotFound
                         /\ StoreAnswer(err) = StoreNotFound
                               => missing /\ store' = store
                         /\ StoreAnswer(err) # StoreNotFound
                               => err[1] \in {"failed to get entity",
                                              "failed to update entity",
                                              "failed to delete entity",
                                              "failed to update person",
                                              "failed to update relationship"}]_vars

\* a Delete of an id the collection does not hold, while it holds others,
\* came back with the not-found error
C14_Witness ==
    /\ lastOp.fn = "Delete"
    /\ IsNotFoundError(lastOp.err)
    /\ lastOp.id \notin DOMAIN Docs(lastOp.kind)
    /\ DOMAIN Docs(lastOp.kind) # {}

\* the condition the repository reports for a store failure it does not
\* recognise: one of its "failed to ..." errors
IsPersistenceError(err) ==
    err # NoErr /\
    \E i \in 1..Len(err) :
        err[i] \in {"failed to create entity", "failed to get entity",
                    "failed to update entity", "failed to delete entity",
                    "failed to query entities", "failed to read entity"}

\* C15: when the caller's context is cancelled or times out during a
\* repository operation, the error the operation returns is neither the
\* not-found error nor the generic persistence failure.
C15_CancellationDistinct ==
    (lastOp.err # NoErr /\ StoreAnswer(lastOp.err) = ContextCanceled)
        => ~IsNotFoundError(lastOp.err) /\ ~IsPersistenceError(lastOp.err)

\* the entities a finder returned, and whether it returned each only once
Found == {lastOp.entities.elems[i] : i \in 1..Len(lastOp.entities.elems)}
FoundOnce == Cardinality(Found) = Len(lastOp.entities.elems)

\* the stored documents of a collection, as entities
Stored(kind) == {Unmarshal(kind, Docs(kind)[key]) : key \in DOMAIN Docs(kind)}

\* C16: FindByName(firstName, lastName) returns exactly the stored Persons p
\* with (firstName = "" or p.firstName = firstName) and (lastName = "" or
\* p.lastName = lastName).
C16_FindByNameExact ==
    (lastOp.fn = "FindByName" /\ lastOp.err = NoErr)
        => LET firstName == lastOp.arg[1].FirstName
               lastName == lastOp.arg[1].LastName
           IN /\ FoundOnce
              /\ Found = {p \in Stored(PersonsColl) :
                            /\ firstName = EmptyStr \/ p.FirstName = firstName
                            /\ lastName = EmptyStr \/ p.LastName = lastName}

\* FindByName("Ada", "") returned a person while the collection also holds
\* one with another first name
C16_Witness ==
    /\ lastOp.fn = "FindByName"
    /\ lastOp.err = NoErr
    /\ lastOp.arg[1] = [FirstName |-> Ada, LastName |-> EmptyStr]
    /\ Found # {}
    /\ \E p \in Stored(PersonsColl) : p.FirstName = Charles

\* C17: FindByPerson(id) returns every stored Relationship whose from or to
\* equals id, and no other.
C17_FindByPersonExact ==
    (lastOp.fn = "FindByPerson" /\ lastOp.err = NoErr)
        => LET personID == lastOp.arg[1].PersonID
           IN /\ FoundOnce
              /\ Found = {rel \in Stored(RelationshipsColl) :
                            rel.From = personID \/ rel.To = personID}

\* FindByPerson returned a relationship that points to the person, and left
\* out another that does not involve the person
C17_Witness ==
    /\ lastOp.fn = "FindByPerson"
    /\ lastOp.err = NoErr
    /\ \E rel \in Found :
          rel.To = lastOp.arg[1].PersonID /\ rel.From # lastOp.arg[1].PersonID
    /\ Stored(RelationshipsColl) \ Found # {}

\* C18: for every string t, in the closed set or not, FindByType(t) returns
\* exactly the stored Relationships whose relationType equals t.
C18_FindByTypeExact ==
    (lastOp.fn = "FindByType" /\ lastOp.err = NoErr)
        => /\ FoundOnce
           /\ Found = {rel \in Stored(RelationshipsColl) :
                         rel.RelationType = lastOp.arg[1].RelationType}

\* with one sibling relationship from A to B stored, FindByType("spouse")
\* returned nothing
C18_Witness ==
    /\ lastOp.fn = "FindByType"
    /\ lastOp.err = NoErr
    /\ lastOp.arg[1].RelationType = RelationTypeSpouse
    /\ lastOp.entities.elems = <<>>
    /\ \E rel \in Stored(RelationshipsColl) :
          /\ rel.From = PersonA
          /\ rel.To = PersonB
          /\ rel.RelationType = RelationTypeSibling

\* C19: DeletePerson leaves every document of the relationships collection
\* as it was, those whose from or to is the deleted person included, and
\* FindByPerson on the deleted person returns what it returned before.
C19_DeletePersonKeepsRelationships ==
    [][(lastOp' # lastOp /\ lastOp'.op = "DeletePerson")
          => LET ref == IDOf(PersonsColl, lastOp'.id)
             IN /\ store'.docs[RelationshipsColl] = store.docs[RelationshipsColl]
                /\ lastOp'.id # EmptyStr
                      => FindByPerson(store', ref, StoreOK, StoreOK)
                            = FindByPerson(store, ref, StoreOK, StoreOK)
                /\ lastOp'.err = NoErr
                      => lastOp'.id \notin DOMAIN store'.docs[PersonsColl]]_vars

\* a person was deleted while a relationship starts at it: the relationship
\* is still stored and FindByPerson still returns it
C19_Witness ==
    /\ lastOp.op = "DeletePerson"
    /\ lastOp.err = NoErr
    /\ lastOp.id = KeyOf(1)
    /\ KeyOf(1) \notin DOMAIN Docs(PersonsColl)
    /\ \E key \in DOMAIN Docs(RelationshipsColl) :
          Docs(RelationshipsColl)[key].From = PersonA
    /\ FindByPerson(store, PersonA, StoreOK, StoreOK).entities.elems # <<>>

\* C20: once NewClient has returned successfully, from whatever the store
\* held before, the database has both collections, relationships edge-typed
\* and persons document-typed.
C20_CollectionsTyped ==
    \A i \in Instances :
        (pc[i] = "done" /\ bootErr[i] = NoErr)
            => /\ catalog.database
               /\ Kinds \subseteq DOMAIN catalog.collections
               /\ catalog.collections[RelationshipsColl] = EdgeType
               /\ catalog.collections[PersonsColl] = DocumentType

\* the store has the database and both collections
Complete == catalog.database /\ Kinds \subseteq DOMAIN catalog.collections

\* NewClient is about to send a create request
Creating(i) == pc[i] \in {"createDatabase", "createPersons", "createRelationships"}

\* C21: against a store that has the database and both collections, NewClient
\* sends no create-database and no create-collection request, leaves the
\* store as it is, and fails only if the connection does; so a second
\* NewClient after a first changes nothing.
C21_NewClientIdempotent ==
    [][Complete
          => /\ catalog' = catalog
             /\ \A i \in Instances :
                   ~Creating(i)
                      => /\ ~Creating(i)'
                         /\ (pc[i] # "failed" /\ pc'[i] = "failed")
                               => bootErr'[i][Len(bootErr'[i])] = StoreUnavailable]_vars

\* every instance has run NewClient to the end without an error, over a
\* store that was complete before the last of them looked
C21_Witness ==
    /\ Complete
    /\ \A i \in Instances : pc[i] = "done" /\ bootErr[i] = NoErr

\* C22: the service globals are set only once NewClient, Ping and both
\* GetCollection calls have succeeded, and then both are; when a step fails
\* Init returns an error and neither service global is set.
C22_ServicesAfterInit ==
    \A i \in Instances :
        /\ (globals[i].PersonService \/ globals[i].RelationshipService)
              => /\ pc[i] = "ready"
                 /\ bootErr[i] = NoErr
                 /\ globals[i] = AllGlobals
                 /\ Complete
        /\ pc[i] = "initFailed"
              => /\ bootErr[i] # NoErr
                 /\ ~globals[i].PersonService
                 /\ ~globals[i].RelationshipService
        /\ pc[i] = "ready" => globals[i] = AllGlobals

\* one instance has its services while Init of another failed at a
\* GetCollection call, after its Ping
C22_Witness ==
    \E i, j \in Instances :
        /\ pc[i] = "ready"
        /\ globals[i].PersonService
        /\ pc[j] = "initFailed"
        /\ globals[j].ArangoClient
        /\ ~globals[j].PersonService

\* the field each option constructor is for
OptionField ==
    [WithEndpoints |-> "Endpoints", WithUsername |-> "Username",
     WithPassword |-> "Password", WithDatabase |-> "Database",
     WithTimeout |-> "Timeout", WithMaxRetries |-> "MaxRetries",
     WithRetryDelay |-> "RetryDelay"]

\* the value the last of calls[1..n] for field f was built with, the default
\* when none is for f
RECURSIVE LastFor(_, _, _)
LastFor(f, calls, n) ==
    IF n = 0 THEN DefaultOptions[f]
    ELSE IF OptionField[calls[n].with] = f THEN calls[n].arg
    ELSE LastFor(f, calls, n - 1)

\* C23: ApplyOptions(DefaultOptions(), f1..fn) gives every field the value of
\* the last option function for that field, the default when there is none;
\* each With* function changes its own field only.
C23_OptionsLastWins ==
    /\ \A f \in DOMAIN DefaultOptions :
          options.opts[f] = LastFor(f, options.calls, options.done)
    /\ options.result # <<>>
          => \A f \in DOMAIN DefaultOptions :
                options.result[1][f] = LastFor(f, options.calls, Len(options.calls))

\* ApplyOptions returned after a password, a user name and a second password
\* were set: the second password stands, the user name too, the rest is default
C23_Witness ==
    /\ options.result # <<>>
    /\ Len(options.calls) = 3
    /\ options.calls[1].with = "WithPassword"
    /\ options.calls[2].with = "WithUsername"
    /\ options.calls[3].with = "WithPassword"
    /\ options.calls[1].arg # options.calls[3].arg
    /\ options.result[1].Password = options.calls[3].arg
    /\ options.result[1].Username = options.calls[2].arg
    /\ options.result[1].Database = DefaultOptions.Database

\* the fetch that settled last, when no fetchData was called since
Succeeded == hook.settled # <<>> /\ Thrown(hook, hook.settled[1].outcome) = <<>>
Failed == hook.settled # <<>> /\ Thrown(hook, hook.settled[1].outcome) # <<>>

\* C24: right after a fetch of useApiData failed (fetchFn rejected, or
\* validateData rejected the result) with initialData given, data is
\* initialData, error is a message and isLoading is false; right after a
\* fetch succeeded, data is the fetched result, error is null and
\* isLoading is false.
C24_StateAfterFetch ==
    /\ (Failed /\ hook.props.initialData # <<>>)
          => /\ hook.data = hook.props.initialData[1]
             /\ hook.error # Null
             /\ ~hook.isLoading
    /\ Succeeded
          => /\ hook.data = hook.settled[1].outcome.value
             /\ hook.error = Null
             /\ ~hook.isLoading

\* C30: while a fetch of useApiData is pending, isLoading is true.
C30_LoadingWhilePending ==
    (\E n \in DOMAIN hook.fetches : hook.fetches[n] = "pending") => hook.isLoading

\* the fields a request sets
SetBy(req) == {f \in DOMAIN req : req[f] # Zero(f)}

\* the stored document carries what the request asked for
Carries(kind, doc, req) ==
    LET entity == Unmarshal(kind, doc) IN ApplyUpdate(kind, entity, req) = entity

\* C25: when two UpdatePerson (or two UpdateRelationship) calls on the same
\* id whose requests set different fields have both succeeded, the stored
\* document carries the values of both requests.
C25_BothUpdatesKept ==
    \A c, d \in Callers :
        LET u == updates[c]
            v == updates[d]
        IN (/\ c # d
            /\ u.pc = "done" /\ u.err = NoErr
            /\ v.pc = "done" /\ v.err = NoErr
            /\ u.kind = v.kind /\ u.id = v.id
            /\ SetBy(u.req) \cap SetBy(v.req) = {}
            /\ u.id \in DOMAIN Docs(u.kind))
           => /\ Carries(u.kind, Docs(u.kind)[u.id], u.req)
              /\ Carries(u.kind, Docs(u.kind)[u.id], v.req)

\* Delete(id) has succeeded: the store gave the key out and the document
\* is gone
Deleted(kind, id) ==
    /\ id \in {KeyOf(n) : n \in 1..store.keySeq}
    /\ id \notin DOMAIN Docs(kind)

\* C26: an update call never adds a document to the store; an update call
\* that returns after Delete(id) succeeded, the store answering, returns
\* the not-found error, also when it had read the entity before the
\* delete, and GetByID(id) fails with not-found afterwards.
C26_UpdateNeverCreates ==
    [][\A c \in Callers :
          LET u == updates'[c] IN
          updates'[c] # updates[c]
             => /\ \A kind \in Kinds : DOMAIN store'.docs[kind] \subseteq DOMAIN Docs(kind)
                /\ (/\ u.pc = "done"
                    /\ Deleted(u.kind, u.id)
                    /\ StoreAnswer(u.err) \notin Failures)
                      => /\ IsNotFoundError(u.err)
                         /\ u.ptr = NilPtr
                         /\ IsNotFoundError(GetByID(u.kind, store', u.id, StoreOK).err)]_vars

\* an update that had read the entity, then found it deleted at its write
C26_Witness ==
    \E c \in Callers :
        /\ updates[c].pc = "done"
        /\ updates[c].entity # NilPtr
        /\ Deleted(updates[c].kind, updates[c].id)
        /\ IsNotFoundError(updates[c].err)
        /\ updates[c].err[1] = "failed to update person"

\* the last exchange went through a handler that addresses one id and
\* called its service
ByIdServed ==
    /\ http.exchange # <<>>
    /\ \E fn \in {"service.Get", "service.Update", "service.Delete"} :
          Contains(http.exchange[1].trail, fn)

\* C27: a GET, PUT or DELETE for an id is answered 404 exactly when the
\* store reported the addressed document missing; every other failure of
\* the store during the request is answered 500.
C27_NotFoundIffMissing ==
    ByIdServed =>
        LET x == http.exchange[1]
            missing == x.err # NoErr /\ StoreAnswer(x.err) = StoreNotFound
        IN /\ (x.status = StatusNotFound) <=> missing
           /\ (x.err # NoErr /\ ~missing) => x.status = StatusInternalServerError
           /\ x.err = NoErr => x.status = StatusOK

\* a PUT for an id the store does not hold, answered 404
C27_Witness ==
    /\ ByIdServed
    /\ http.exchange[1].req.method = "PUT"
    /\ http.exchange[1].status = StatusNotFound
    /\ http.exchange[1].err = <<"entity not found", StoreNotFound>>

\* C28: a PUT or DELETE to a persons or relationships route without an id
\* segment that reaches the router is answered 400 and does not reach the
\* service's update or delete.
C28_NoIdIsBadRequest ==
    \A kind \in Kinds :
        (/\ http.exchange # <<>>
         /\ http.exchange[1].req.method \in {"PUT", "DELETE"}
         /\ http.exchange[1].req.path \in {RoutePath(kind), RoutePrefix(kind)}
         /\ Contains(http.exchange[1].trail, "handleAPIRoutes"))
        => /\ http.exchange[1].status = StatusBadRequest
           /\ ~Contains(http.exchange[1].trail, "service.Update")
           /\ ~Contains(http.exchange[1].trail, "service.Delete")

\* C29: with rate limiting enabled, a request to a /v1/ route is checked
\* against the RateLimiter before it reaches the persons or relationships
\* handler.
C29_RateLimitedBeforeHandler ==
    (/\ http.rateLimiter
     /\ http.exchange # <<>>
     /\ \E kind \in Kinds : Contains(http.exchange[1].trail, "Handle." \o kind))
    => \E i, j \in DOMAIN http.exchange[1].trail :
          /\ i < j
          /\ http.exchange[1].trail[i] = "RateLimiter.Allow"
          /\ http.exchange[1].trail[j] \in {"Handle." \o kind : kind \in Kinds}

====
